---- MODULE Spec2Model ----
\* Verification model of the 3D multi-pipe routing engine:
\*   Environment (occupancy grid, owner map), Pipe, Plan, ConstraintSet, CTNode,
\*   ConflictManager, QualityEvaluator, AStarSolver (low-level router), FixOrder,
\*   the CTNode-based PBS (pbs-py.py) and the dictionary-based PBS (pbs.py).
\* Points are integer voxel triples <<x, y, z>> (grid resolution 1).
\* Python's None for a path is written NoPath (the empty sequence): the router
\* never returns an empty list, its paths always begin with the start vertex.
EXTENDS Integers, Sequences, FiniteSets, TLC

VARIABLES
    grid_size,        \* Environment.grid_size
    grid,             \* Environment.grid: cell -> 0 free, 1 obstacle, 2 pipe
    occupation_map,   \* Environment.occupation_map: cell -> owning pipe id
    obstacles,        \* Environment.obstacles (list of cuboids)
    pipes,            \* the caller's Pipe objects, indexed by id + 1
    ops,              \* number of API operations performed so far
    last_op,          \* name of the last API operation
    entry_grid,       \* grid at entry to the last solve call
    entry_occ,        \* owner map at entry to the last solve call
    call_pipe,        \* id of the pipe of the last solve call (-1: none yet)
    call_hp,          \* higher-priority pipes (as passed) of the last solve call
    last_result,      \* value returned by the last solve call
    ever_obstacle,    \* cells that add_obstacle has classified obstacle
    call_timed_out,   \* whether the last solve call hit its deadline
    marked_pipes,     \* ids of the pipes marked and not yet unmarked
    op_pipe,          \* id of the pipe of the last mark / unmark call (-1: none)
    pre_mark,         \* grid and owner map before the last mark_pipe_path call
    pair,             \* "marked" after mark(p), "unmarked" after mark(p); unmark(p)
    pbs_pc,           \* position in PBS.solve: "off", "start", "loop", "done"
    max_missing,      \* PBS.max_missing
    conflict_policy,  \* PBS.conflict_policy
    stack,            \* PBS.solve: the DFS stack of CTNodes (top = last)
    best_plan,        \* PBS.solve: best_plan (NoPlan for None)
    root_plan,        \* PBS.solve: root_plan
    result,           \* the plan PBS.solve returned (NoPlan before it returns)
    nodes_expanded,   \* PBS.nodes_expanded
    max_depth,        \* PBS.max_depth
    timeouts,         \* number of low-level calls that hit their deadline
    accepts,          \* number of assignments to best_plan so far
    ll_calls,         \* low-level calls made by the last loop iteration
    created,          \* CTNodes created by the last loop iteration, in order
    last_branch,      \* conflict, parent constraints and parent plan after the last _branch
    last_step,        \* what the last step of PBS.solve did with the popped node
    det_op,           \* conflict detector: name of the last operation
    det_conflicts,    \* conflict detector: value of the last find_all_conflicts
    fo_pc,            \* FixOrder.solve: "off", "ready", "done" or "raised"; "rerun" after a
                      \* second solve, "independent" after PBS._independent_routing,
                      \* on the same Pipe objects
    routed_pipes,     \* FixOrder.solve: ids of routed_pipes, in routing order
    fo_plan,          \* the plan FixOrder.solve returned (NoPlan before it returns)
    run_returned,     \* ids of the pipes the router returned a path for in the last run
    cs_node,          \* ConstraintSet / CTNode calls: the node holding the set
    cs_child,         \* the node the last create_child returned (NoNode for none)
    cs_op,            \* name of the last ConstraintSet / CTNode call
    cs_out,           \* value the last ConstraintSet call returned
    q_plans,          \* quality comparison: the plans compared
    q_out,            \* quality comparison: what the comparisons returned
    min_missing,      \* dictionary-based PBS.solve: min_missing
    one_dive          \* dictionary-based PBS.solve: the one_dive argument

envVars == <<grid_size, grid, occupation_map, obstacles, pipes, ops, last_op,
             entry_grid, entry_occ, call_pipe, call_hp, last_result, ever_obstacle,
             call_timed_out, marked_pipes, op_pipe, pre_mark, pair>>

\* What the mark / unmark calls leave behind, besides the grid
markVars == <<marked_pipes, op_pipe, pre_mark>>

pbsVars == <<pbs_pc, max_missing, conflict_policy, stack, best_plan, root_plan, result,
             nodes_expanded, max_depth, timeouts, accepts, ll_calls, created,
             last_branch, last_step>>

detVars == <<det_op, det_conflicts>>

fixVars == <<fo_pc, routed_pipes, fo_plan, run_returned>>

consVars == <<cs_node, cs_child, cs_op, cs_out>>

qualVars == <<q_plans, q_out>>

dictVars == <<min_missing, one_dive>>

unitVars == <<consVars, qualVars, dictVars>>

vars == <<envVars, pbsVars, detVars, fixVars, unitVars>>

\* ---------------------------------------------------------------- bounds
\* Number of API operations explored per behaviour of the environment model.
MaxOps == 4
\* Number of DFS iterations explored per PBS run (the loop has no bound of
\* its own besides the wall clock).
MaxNodes == 8
\* Number of low-level calls per PBS run that may hit the per-call deadline.
MaxTimeouts == 1
\* Largest pipe diameter of the plans the conflict detector is applied to.
MaxDiameter == 2
\* Largest number of constraints of the sets ConstraintSet is applied to.
MaxConstraints == 3

\* ---------------------------------------------------------------- constants
FREE == 0
OBSTACLE == 1
PIPE == 2
BEND_PENALTY == 50
BEND_WEIGHT == 100
HEIGHT_PENALTY_WEIGHT == 10
\* None for Pipe.length / Pipe.num_bends
NoValue == 0 - 1

NoPath == <<>>

\* None for best_plan
NoPlan == <<>>

\* No _branch call in the last loop iteration
NoBranch == [conflict |-> <<>>, parent |-> {}, plan |-> NoPlan]

\* max_missing = float('inf') (PBS-MP): num_missing <= inf always holds
INF_MISSING == 1000000

\* ---------------------------------------------------------------- sequences
Last(s) == s[Len(s)]

Range(s) == {s[i] : i \in 1..Len(s)}

Abs(n) == IF n < 0 THEN -n ELSE n

\* ---------------------------------------------------------------- costs
\* A cost is a rational <<numerator, denominator>>; float('inf') is Inf
\* (denominator 0); Pipe.cost = None is NoCost.
Inf == <<1, 0>>

NoCost == <<0 - 1, 1>>

IsInf(c) == c[2] = 0

CostAdd(a, b) == IF IsInf(a) \/ IsInf(b) THEN Inf ELSE <<a[1] * b[2] + b[1] * a[2], a[2] * b[2]>>

\* a < b on floats, inf included (inf < inf is false)
CostLess(a, b) ==
    IF IsInf(a) THEN FALSE
    ELSE IF IsInf(b) THEN TRUE
    ELSE a[1] * b[2] < b[1] * a[2]

CostEq(a, b) == ~CostLess(a, b) /\ ~CostLess(b, a)

\* ---------------------------------------------------------------- Pipe
\* Pipe.__init__
Pipe(pipe_id, start, goal, diameter) ==
    [id |-> pipe_id, start |-> start, goal |-> goal, diameter |-> diameter,
     path |-> NoPath, cost |-> NoCost, length |-> NoValue, num_bends |-> NoValue]

\* Pipe.has_path
has_path(pipe) == pipe.path # NoPath

\* Pipe._get_direction
pipe_get_direction(p1, p2) ==
    IF p1[1] # p2[1] THEN "x"
    ELSE IF p1[2] # p2[2] THEN "y"
    ELSE IF p1[3] # p2[3] THEN "z"
    ELSE "none"

\* Pipe._count_bends
count_bends(path) ==
    IF Len(path) < 3 THEN 0
    ELSE Cardinality({i \in 2..(Len(path) - 1) :
            pipe_get_direction(path[i - 1], path[i]) # pipe_get_direction(path[i], path[i + 1])})

\* Euclidean length of one segment (an integer for axis-parallel segments)
SegmentLength(p1, p2) ==
    LET sq == (p2[1] - p1[1]) * (p2[1] - p1[1]) + (p2[2] - p1[2]) * (p2[2] - p1[2])
              + (p2[3] - p1[3]) * (p2[3] - p1[3])
    IN  CHOOSE r \in 0..sq : r * r = sq

RECURSIVE SumTo(_, _)
SumTo(f, n) == IF n = 0 THEN 0 ELSE f[n] + SumTo(f, n - 1)

\* Pipe._calculate_cost line 62-68
path_length(path) ==
    SumTo([i \in 1..(Len(path) - 1) |-> SegmentLength(path[i], path[i + 1])], Len(path) - 1)

\* Pipe._calculate_cost: the pipe after the call (path already assigned).
\* cost = length * diameter + BEND_WEIGHT * num_bends
\*        + HEIGHT_PENALTY_WEIGHT * (sum z / len(path)) * num_bends
calculate_cost(pipe) ==
    IF pipe.path = NoPath \/ Len(pipe.path) < 2 THEN [pipe EXCEPT !.cost = Inf]
    ELSE LET len == path_length(pipe.path)
             nb == count_bends(pipe.path)
             sumz == SumTo([i \in 1..Len(pipe.path) |-> pipe.path[i][3]], Len(pipe.path))
             n == Len(pipe.path)
         IN  [pipe EXCEPT !.length = len, !.num_bends = nb,
                          !.cost = <<(len * pipe.diameter + BEND_WEIGHT * nb) * n
                                     + HEIGHT_PENALTY_WEIGHT * sumz * nb, n>>]

\* Pipe.set_path
set_path(pipe, path) ==
    IF path # NoPath THEN calculate_cost([pipe EXCEPT !.path = path])
    ELSE [pipe EXCEPT !.path = NoPath, !.cost = NoCost, !.length = NoValue,
                      !.num_bends = NoValue]

\* Pipe.get_occupied_cells: the set of the path's points (diameter ignored)
get_occupied_cells(pipe) == IF pipe.path = NoPath THEN {} ELSE Range(pipe.path)

\* ---------------------------------------------------------------- Environment
Cells(gs) == (0..(gs[1] - 1)) \X (0..(gs[2] - 1)) \X (0..(gs[3] - 1))

\* Environment._is_valid_cell
is_valid_cell(gs, cell) ==
    /\ 0 <= cell[1] /\ cell[1] < gs[1]
    /\ 0 <= cell[2] /\ cell[2] < gs[2]
    /\ 0 <= cell[3] /\ cell[3] < gs[3]

\* Environment.is_free
is_free(gs, g, point) ==
    IF ~is_valid_cell(gs, point) THEN FALSE ELSE g[point] = FREE

\* Environment.get_neighbors: the six axis directions, kept when in bounds
Directions ==
    {<<1, 0, 0>>, <<-1, 0, 0>>, <<0, 1, 0>>, <<0, -1, 0>>, <<0, 0, 1>>, <<0, 0, -1>>}

get_neighbors(gs, point) ==
    {n \in {<<point[1] + d[1], point[2] + d[2], point[3] + d[3]>> : d \in Directions} :
        is_valid_cell(gs, n)}

\* Obstacle.get_occupied_cells: every cell of the inclusive cuboid
obstacle_cells(o) ==
    (o.min_corner[1]..o.max_corner[1]) \X (o.min_corner[2]..o.max_corner[2])
        \X (o.min_corner[3]..o.max_corner[3])

\* Environment.add_obstacle: grid part (cells inside the grid become 1)
add_obstacle_grid(gs, g, o) ==
    [c \in DOMAIN g |-> IF c \in obstacle_cells(o) /\ is_valid_cell(gs, c)
                         THEN OBSTACLE ELSE g[c]]

\* Environment.mark_pipe_path on env = [grid, occ]
mark_pipe_path(gs, env, pipe) ==
    IF pipe.path = NoPath THEN env
    ELSE LET cs == {c \in get_occupied_cells(pipe) : is_valid_cell(gs, c)}
         IN  [grid |-> [c \in DOMAIN env.grid |-> IF c \in cs THEN PIPE ELSE env.grid[c]],
              occ  |-> [c \in (DOMAIN env.occ) \cup cs |->
                           IF c \in cs THEN pipe.id ELSE env.occ[c]]]

\* Environment.unmark_pipe_path on env = [grid, occ]
unmark_pipe_path(gs, env, pipe) ==
    IF pipe.path = NoPath THEN env
    ELSE LET cs == {c \in get_occupied_cells(pipe) :
                       c \in DOMAIN env.occ /\ env.occ[c] = pipe.id}
         IN  [grid |-> [c \in DOMAIN env.grid |-> IF c \in cs THEN FREE ELSE env.grid[c]],
              occ  |-> [c \in (DOMAIN env.occ) \ cs |-> env.occ[c]]]

\* ---------------------------------------------------------------- AStarSolver
\* AStarSolver._heuristic: Manhattan distance
heuristic(p1, p2) == Abs(p1[1] - p2[1]) + Abs(p1[2] - p2[2]) + Abs(p1[3] - p2[3])

\* AStarSolver._calculate_distance: Euclidean distance (an integer for the
\* axis-parallel moves the search makes)
calculate_distance(p1, p2) ==
    LET sq == (p1[1] - p2[1]) * (p1[1] - p2[1]) + (p1[2] - p2[2]) * (p1[2] - p2[2])
              + (p1[3] - p2[3]) * (p1[3] - p2[3])
    IN  CHOOSE r \in 0..sq : r * r = sq

\* AStarSolver._get_direction
get_direction(p1, p2) ==
    IF p1[1] # p2[1] THEN "x"
    ELSE IF p1[2] # p2[2] THEN "y"
    ELSE IF p1[3] # p2[3] THEN "z"
    ELSE "none"

\* Python's tuple order on positions
PosLess(a, b) ==
    \/ a[1] < b[1]
    \/ a[1] = b[1] /\ a[2] < b[2]
    \/ a[1] = b[1] /\ a[2] = b[2] /\ a[3] < b[3]

\* heapq's order on (f_score, g_score, position, ...). Two heap entries never
\* agree on position and g_score (a push needs new_g < visited[neighbor]), so
\* the order is decided by the first three components.
EntryLess(a, b) ==
    \/ a.f < b.f
    \/ a.f = b.f /\ a.g < b.g
    \/ a.f = b.f /\ a.g = b.g /\ PosLess(a.pos, b.pos)

heappop(heap) == CHOOSE e \in heap : \A o \in heap : o = e \/ EntryLess(e, o)

\* The expansion with the penalty on keeping the direction (== for !=)
expand_penalize_straight(gs, g, goal, diameter, visited, e) ==
    LET newg(n) == e.g + calculate_distance(e.pos, n) * diameter
                   + (IF e.dir # "none" /\ get_direction(e.pos, n) = e.dir
                      THEN BEND_PENALTY ELSE 0)
    IN  {[f |-> newg(n) + heuristic(n, goal), g |-> newg(n), pos |-> n,
          path |-> Append(e.path, n), dir |-> get_direction(e.pos, n)] :
            n \in {m \in get_neighbors(gs, e.pos) :
                      /\ is_free(gs, g, m)
                      /\ (m \notin DOMAIN visited \/ newg(m) < visited[m])}}

\* One expansion of the popped entry: the entries to push (lines 105-129)
expand(gs, g, goal, diameter, visited, e) ==
    LET newg(n) == e.g + calculate_distance(e.pos, n) * diameter
                   + (IF e.dir # "none" /\ get_direction(e.pos, n) # e.dir
                      THEN BEND_PENALTY ELSE 0)
    IN  {[f |-> newg(n) + heuristic(n, goal), g |-> newg(n), pos |-> n,
          path |-> Append(e.path, n), dir |-> get_direction(e.pos, n)] :
            n \in {m \in get_neighbors(gs, e.pos) :
                      /\ is_free(gs, g, m)
                      /\ (m \notin DOMAIN visited \/ newg(m) < visited[m])}}

\* AStarSolver._a_star_search, the while loop (no deadline expiry)
RECURSIVE a_star_loop(_, _, _, _, _, _)
a_star_loop(gs, g, goal, diameter, heap, visited) ==
    IF heap = {} THEN NoPath
    ELSE LET e == heappop(heap)
             rest == heap \ {e}
         IN  IF e.pos = goal THEN e.path
             ELSE IF visited[e.pos] < e.g
                  THEN a_star_loop(gs, g, goal, diameter, rest, visited)
                  ELSE LET pushed == expand(gs, g, goal, diameter, visited, e)
                           vis2 == [c \in (DOMAIN visited) \cup {n.pos : n \in pushed} |->
                                      IF \E n \in pushed : n.pos = c
                                      THEN (CHOOSE n \in pushed : n.pos = c).g
                                      ELSE visited[c]]
                       IN  a_star_loop(gs, g, goal, diameter, rest \cup pushed, vis2)

\* The search seeded with an empty path instead of [start]
a_star_search_no_start(gs, g, start, goal, diameter) ==
    a_star_loop(gs, g, goal, diameter,
                {[f |-> heuristic(start, goal), g |-> 0, pos |-> start,
                  path |-> <<>>, dir |-> "none"]},
                [c \in {start} |-> 0])

\* AStarSolver._a_star_search
a_star_search(gs, g, start, goal, diameter) ==
    a_star_loop(gs, g, goal, diameter,
                {[f |-> heuristic(start, goal), g |-> 0, pos |-> start,
                  path |-> <<start>>, dir |-> "none"]},
                [c \in {start} |-> 0])

\* The heap entry (f, g, pos, path, last_dir) whose pop ends the main loop of
\* _a_star_search at the goal test, NoPath when the heap runs empty
RECURSIVE a_star_goal_entry(_, _, _, _, _, _)
a_star_goal_entry(gs, g, goal, diameter, heap, visited) ==
    IF heap = {} THEN NoPath
    ELSE LET e == heappop(heap)
             rest == heap \ {e}
         IN  IF e.pos = goal THEN e
             ELSE IF visited[e.pos] < e.g
                  THEN a_star_goal_entry(gs, g, goal, diameter, rest, visited)
                  ELSE LET pushed == expand(gs, g, goal, diameter, visited, e)
                           vis2 == [c \in (DOMAIN visited) \cup {n.pos : n \in pushed} |->
                                      IF \E n \in pushed : n.pos = c
                                      THEN (CHOOSE n \in pushed : n.pos = c).g
                                      ELSE visited[c]]
                       IN  a_star_goal_entry(gs, g, goal, diameter, rest \cup pushed, vis2)

\* The goal entry popped by _a_star_search(start, goal, diameter)
popped_goal_entry(gs, g, start, goal, diameter) ==
    a_star_goal_entry(gs, g, goal, diameter,
                      {[f |-> heuristic(start, goal), g |-> 0, pos |-> start,
                        path |-> <<start>>, dir |-> "none"]},
                      [c \in {start} |-> 0])

\* Marking that stops after the first pipe of the list
mark_all_first_only(gs, env, hp) ==
    IF hp = <<>> THEN env
    ELSE IF has_path(Head(hp)) THEN mark_pipe_path(gs, env, Head(hp)) ELSE env

\* Marking / unmarking the obstacle pipes in list order (lines 42-45, 60-63)
RECURSIVE mark_all(_, _, _)
mark_all(gs, env, hp) ==
    IF hp = <<>> THEN env
    ELSE mark_all(gs, IF has_path(Head(hp)) THEN mark_pipe_path(gs, env, Head(hp)) ELSE env,
                  Tail(hp))

RECURSIVE unmark_all(_, _, _)
unmark_all(gs, env, hp) ==
    IF hp = <<>> THEN env
    ELSE unmark_all(gs, IF has_path(Head(hp)) THEN unmark_pipe_path(gs, env, Head(hp)) ELSE env,
                    Tail(hp))

\* AStarSolver.solve: [path, env] after the call. timed_out: the per-call
\* deadline expired at some pop, the search returned None; the finally block
\* runs on every exit.
solve(gs, env, pipe, hp, timed_out) ==
    LET marked == mark_all(gs, env, hp)
        path == IF timed_out THEN NoPath
                ELSE a_star_search(gs, marked.grid, pipe.start, pipe.goal, pipe.diameter)
    IN  [path |-> path, env |-> unmark_all(gs, marked, hp)]

\* ---------------------------------------------------------------- Plan
\* A Plan is its list of pipes (Plan.pipes); Plan.copy is the same value.
\* Plan.get_pipe / list indexing by id
PipeOf(ps, id) == ps[id + 1]

\* Plan.get_routed_pipes, as the list of ids in list order
routed_ids(plan) == {plan[i].id : i \in {k \in 1..Len(plan) : has_path(plan[k])}}

\* Plan.num_routed
num_routed(plan) == Cardinality({k \in 1..Len(plan) : has_path(plan[k])})

\* Plan.num_missing
num_missing(plan) == Cardinality({k \in 1..Len(plan) : ~has_path(plan[k])})

RECURSIVE SumCost(_, _)
SumCost(plan, n) ==
    IF n = 0 THEN <<0, 1>>
    ELSE IF has_path(plan[n]) THEN CostAdd(SumCost(plan, n - 1), plan[n].cost)
    ELSE SumCost(plan, n - 1)

\* Plan.total_cost
total_cost(plan) == IF num_routed(plan) = 0 THEN Inf ELSE SumCost(plan, Len(plan))

\* Plan.get_quality
get_quality(plan) == <<num_missing(plan), total_cost(plan)>>

\* Python's < on quality tuples (num_missing, total_cost)
QualityLess(q1, q2) == q1[1] < q2[1] \/ (q1[1] = q2[1] /\ CostLess(q1[2], q2[2]))

\* Plan.is_better_than with <= in place of < on the cost
is_better_or_equal(plan, other) ==
    IF other = NoPlan THEN TRUE
    ELSE LET my == get_quality(plan)
             ot == get_quality(other)
         IN  IF my[1] < ot[1] THEN TRUE
             ELSE IF my[1] > ot[1] THEN FALSE
             ELSE ~CostLess(ot[2], my[2])

\* Plan.is_better_than
is_better_than(plan, other) ==
    IF other = NoPlan THEN TRUE
    ELSE LET my == get_quality(plan)
             ot == get_quality(other)
         IN  IF my[1] < ot[1] THEN TRUE
             ELSE IF my[1] > ot[1] THEN FALSE
             ELSE CostLess(my[2], ot[2])

\* A feasibility test that admits any number of missing pipes
is_feasible_always(plan, mm) == TRUE

\* Plan.is_feasible
is_feasible(plan, mm) == num_missing(plan) <= mm

\* All the orders in which the elements of a set can be listed
RECURSIVE Perms(_)
Perms(S) ==
    IF S = {} THEN {<<>>}
    ELSE UNION {{<<x>> \o p : p \in Perms(S \ {x})} : x \in S}

\* ---------------------------------------------------------------- ConstraintSet
\* A ConstraintSet is the set of its constraints <<higher, lower>>.
Min(S) == CHOOSE x \in S : \A y \in S : x <= y

\* ConstraintSet._build_graph: node -> lower neighbours
build_graph(cs) ==
    [n \in {c[1] : c \in cs} \cup {c[2] : c \in cs} |-> {c[2] : c \in {d \in cs : d[1] = n}}]

\* ConstraintSet._has_cycle_dfs on st = [visited, rec_stack, cycle]; dicts and
\* sets are walked in ascending order (the answer does not depend on it)
RECURSIVE has_cycle_dfs(_, _, _)
RECURSIVE dfs_neighbors(_, _, _)
\* The DFS without line 139: a finished node stays on the recursion stack
has_cycle_dfs_keep_stack(node, graph, st) ==
    dfs_neighbors(graph[node], graph,
                  [visited |-> st.visited \cup {node},
                   rec_stack |-> st.rec_stack \cup {node}, cycle |-> FALSE])

has_cycle_dfs(node, graph, st) ==
    LET st1 == [visited |-> st.visited \cup {node}, rec_stack |-> st.rec_stack \cup {node},
                cycle |-> FALSE]
        st2 == dfs_neighbors(graph[node], graph, st1)
    IN  IF st2.cycle THEN st2 ELSE [st2 EXCEPT !.rec_stack = @ \ {node}]

dfs_neighbors(todo, graph, st) ==
    IF todo = {} THEN st
    ELSE LET nb == Min(todo)
         IN  IF nb \notin st.visited
             THEN LET r == has_cycle_dfs(nb, graph, st)
                  IN  IF r.cycle THEN r ELSE dfs_neighbors(todo \ {nb}, graph, r)
             ELSE IF nb \in st.rec_stack THEN [st EXCEPT !.cycle = TRUE]
             ELSE dfs_neighbors(todo \ {nb}, graph, st)

RECURSIVE consistent_from(_, _, _)
consistent_from(todo, graph, st) ==
    IF todo = {} THEN TRUE
    ELSE LET node == Min(todo)
         IN  IF node \notin st.visited
             THEN LET r == has_cycle_dfs(node, graph, st)
                  IN  IF r.cycle THEN FALSE ELSE consistent_from(todo \ {node}, graph, r)
             ELSE consistent_from(todo \ {node}, graph, st)

\* A consistency check that accepts every set
is_consistent_always(cs) == TRUE

\* ConstraintSet.is_consistent
is_consistent(cs) ==
    LET graph == build_graph(cs)
    IN  consistent_from(DOMAIN graph, graph,
                        [visited |-> {}, rec_stack |-> {}, cycle |-> FALSE])

\* No order: get_priority_order returned None
NoOrder == <<NoValue>>

\* ConstraintSet._build_graph as the dict it is: order lists the keys in
\* insertion order, adj gives each key its list of lower neighbours. clist is
\* the order in which the set of constraints is iterated; g the dict so far.
graph_with_key(g, n) ==
    IF n \in Range(g.order) THEN g
    ELSE [order |-> Append(g.order, n), adj |-> [m \in DOMAIN g.adj \cup {n} |->
                                                   IF m = n THEN <<>> ELSE g.adj[m]]]

RECURSIVE build_graph_from(_, _)
build_graph_from(clist, g) ==
    IF clist = <<>> THEN g
    ELSE LET c == Head(clist)
             g1 == graph_with_key(g, c[1])
             g2 == [g1 EXCEPT !.adj[c[1]] = Append(@, c[2])]
         IN  build_graph_from(Tail(clist), graph_with_key(g2, c[2]))

\* Lines 179-181 with a neighbour queued whenever its in-degree is lowered
RECURSIVE lower_in_degree_always_queue(_, _)
lower_in_degree_always_queue(nbs, st) ==
    IF nbs = <<>> THEN st
    ELSE LET nb == Head(nbs)
             deg == [st.in_degree EXCEPT ![nb] = @ - 1]
         IN  lower_in_degree_always_queue(Tail(nbs),
                 [st EXCEPT !.in_degree = deg, !.queue = Append(st.queue, nb)])

\* Lines 179-181: lower the in-degree of every neighbour, queue those that
\* reach 0
RECURSIVE lower_in_degree(_, _)
lower_in_degree(nbs, st) ==
    IF nbs = <<>> THEN st
    ELSE LET nb == Head(nbs)
             deg == [st.in_degree EXCEPT ![nb] = @ - 1]
         IN  lower_in_degree(Tail(nbs),
                 [st EXCEPT !.in_degree = deg,
                            !.queue = IF deg[nb] = 0 THEN Append(st.queue, nb) ELSE st.queue])

\* Lines 174-181: the while loop of Kahn's algorithm
RECURSIVE kahn_loop(_, _)
kahn_loop(g, st) ==
    IF st.queue = <<>> THEN st.result
    ELSE LET node == Head(st.queue)
         IN  kahn_loop(g, lower_in_degree(g.adj[node],
                              [st EXCEPT !.queue = Tail(st.queue),
                                         !.result = Append(st.result, node)]))

\* ConstraintSet._topological_sort
topological_sort(g) ==
    LET in_degree == [n \in Range(g.order) |->
                         Cardinality({m \in Range(g.order) : n \in Range(g.adj[m])})]
        Free(n) == in_degree[n] = 0
    IN  kahn_loop(g, [in_degree |-> in_degree, queue |-> SelectSeq(g.order, Free),
                      result |-> <<>>])

\* ConstraintSet.get_priority_order, the set iterated in the order clist
get_priority_order(cs, clist) ==
    IF ~is_consistent(cs) THEN NoOrder
    ELSE topological_sort(build_graph_from(clist, [order |-> <<>>, adj |-> <<>>]))

\* A copy that hands back the same set object
constraint_set_copy_alias(cs) == [constraints |-> cs, shares |-> TRUE]

\* ConstraintSet.copy: a new ConstraintSet around a copy of the set, so an
\* add to the copy does not reach the original
constraint_set_copy(cs) == [constraints |-> cs, shares |-> FALSE]

\* ---------------------------------------------------------------- CTNode
\* CTNode.__init__ (root: empty ConstraintSet, depth 0)
CTNode(plan) == [plan |-> plan, constraints |-> {}, depth |-> 0]

\* CTNode.create_child
create_child(node, new_plan, new_constraint) ==
    [plan |-> new_plan,
     constraints |-> constraint_set_copy(node.constraints).constraints \cup {new_constraint},
     depth |-> node.depth + 1]

\* The node a child was created from or added to, after an add of constraint
\* to the child's set: the add reaches it only if the two share the set
parent_after_add(node, constraint) ==
    IF constraint_set_copy(node.constraints).shares
    THEN [node EXCEPT !.constraints = @ \cup {constraint}]
    ELSE node

\* ---------------------------------------------------------------- ConflictManager
\* Conflict.__init__ keeping the ids in argument order
Conflict_as_given(p1, p2) == <<p1, p2>>

\* Conflict.__init__: the smaller id first
Conflict(p1, p2) == IF p1 < p2 THEN <<p1, p2>> ELSE <<p2, p1>>

\* ConflictManager._check_collision: the two paths share a cell
check_collision(pipe1, pipe2) ==
    IF pipe1.path = NoPath \/ pipe2.path = NoPath THEN FALSE
    ELSE get_occupied_cells(pipe1) \cap get_occupied_cells(pipe2) # {}

\* ConflictManager.find_all_conflicts, as the set of its Conflict objects
find_all_conflicts(plan) ==
    {Conflict(plan[ij[1]].id, plan[ij[2]].id) :
        ij \in {p \in (1..Len(plan)) \X (1..Len(plan)) :
                   /\ p[1] < p[2]
                   /\ has_path(plan[p[1]]) /\ has_path(plan[p[2]])
                   /\ check_collision(plan[p[1]], plan[p[2]])}}

\* ConflictManager.find_all_conflicts from the pair (i, j) of routed pipes on
RECURSIVE conflicts_from(_, _, _)
conflicts_from(routed_pipes_, i, j) ==
    IF i > Len(routed_pipes_) THEN <<>>
    ELSE IF j > Len(routed_pipes_) THEN conflicts_from(routed_pipes_, i + 1, i + 2)
    ELSE (IF check_collision(routed_pipes_[i], routed_pipes_[j])
          THEN <<Conflict(routed_pipes_[i].id, routed_pipes_[j].id)>>
          ELSE <<>>) \o conflicts_from(routed_pipes_, i, j + 1)

\* ConflictManager.find_all_conflicts, as the list it returns
find_all_conflicts_list(plan) == conflicts_from(SelectSeq(plan, has_path), 1, 2)

\* ConflictManager.has_conflicts
has_conflicts(plan) == Cardinality(find_all_conflicts(plan)) > 0

\* Weight of a conflict under policy 2: cost1 + cost2, None counted as 0
conflict_weight(plan, c) ==
    CostAdd(IF PipeOf(plan, c[1]).cost = NoCost THEN <<0, 1>> ELSE PipeOf(plan, c[1]).cost,
            IF PipeOf(plan, c[2]).cost = NoCost THEN <<0, 1>> ELSE PipeOf(plan, c[2]).cost)

\* ConflictManager.select_conflict: the conflicts the random draw can return.
\* Policy 1: any. Policy 2: weight / total as probability, so any conflict of
\* positive weight; any at all when the total weight is 0.
\* Lines 137-146 under policy 2: an infinite weight makes total_weight
\* infinite and the probabilities nan or 0, and random.choices raises
\* ValueError ("Total of weights must be finite")
select_conflict_raises(plan, policy) ==
    /\ policy = 2
    /\ \E c \in find_all_conflicts(plan) : IsInf(conflict_weight(plan, c))

select_conflict(plan, policy) ==
    LET cf == find_all_conflicts(plan)
    IN  IF policy = 1 THEN cf
        ELSE IF \A c \in cf : CostEq(conflict_weight(plan, c), <<0, 1>>) THEN cf
        ELSE {c \in cf : CostLess(<<0, 1>>, conflict_weight(plan, c))}

\* ---------------------------------------------------------------- instances
Obstacle(name, min_corner, max_corner) ==
    [name |-> name, min_corner |-> min_corner, max_corner |-> max_corner]

\* Environments and pipes the API model is run on. In EnvFlat pipe 1 starts on
\* the straight route of pipe 0; EnvCube is three-dimensional.
EnvFlat ==
    [size |-> <<3, 2, 1>>,
     pipes |-> <<Pipe(0, <<0, 0, 0>>, <<2, 0, 0>>, 1),
                 Pipe(1, <<1, 0, 0>>, <<1, 1, 0>>, 1),
                 Pipe(2, <<0, 1, 0>>, <<2, 0, 0>>, 2)>>,
     candidates |-> {Obstacle("start0", <<0, 0, 0>>, <<0, 0, 0>>),
                     Obstacle("wall", <<1, 1, 0>>, <<1, 2, 0>>)}]

EnvCube ==
    [size |-> <<2, 2, 2>>,
     pipes |-> <<Pipe(0, <<0, 0, 0>>, <<1, 1, 1>>, 1),
                 Pipe(1, <<1, 0, 0>>, <<0, 0, 1>>, 1)>>,
     candidates |-> {Obstacle("block", <<1, 0, 0>>, <<1, 0, 1>>),
                     Obstacle("goal0", <<1, 1, 1>>, <<1, 1, 1>>)}]

EnvInstances == {EnvFlat, EnvCube}

\* The candidate obstacles of the environment in use
Candidates == UNION {IF i.size = grid_size /\ Len(i.pipes) = Len(pipes)
                     THEN i.candidates ELSE {} : i \in EnvInstances}

PipeIds == {pipes[i].id : i \in 1..Len(pipes)}

\* Lists of distinct pipes other than id (the obstacles_pipes argument)
HpLists(id) ==
    ({<<>>} \cup {<<a>> : a \in PipeIds \ {id}})
        \cup {s \in (PipeIds \ {id}) \X (PipeIds \ {id}) : s[1] # s[2]}

\* ---------------------------------------------------------------- Environment API
\* No node, and no value returned yet
NoNode == [plan |-> NoPlan, constraints |-> {}, depth |-> 0 - 1]

\* No ConstraintSet, CTNode or QualityEvaluator call is made
ConsOff == cs_node = NoNode /\ cs_child = NoNode /\ cs_op = "off" /\ cs_out = NoValue

QualOff == q_plans = <<>> /\ q_out = <<>>

\* The dictionary-based PBS is not in use
DictOff == min_missing = 0 /\ one_dive = FALSE

UnitsOff == ConsOff /\ QualOff /\ DictOff

\* FixOrder not constructed
FixOff == fo_pc = "off" /\ routed_pipes = <<>> /\ fo_plan = NoPlan /\ run_returned = {}

\* Environment.__init__ on one of the instances; no call made yet
Init ==
    /\ \E i \in EnvInstances :
          /\ grid_size = i.size
          /\ grid = [c \in Cells(i.size) |-> FREE]
          /\ pipes = i.pipes
    /\ occupation_map = <<>>
    /\ obstacles = <<>>
    /\ ops = 0
    /\ last_op = "init"
    /\ entry_grid = grid
    /\ entry_occ = <<>>
    /\ call_pipe = 0 - 1
    /\ call_hp = <<>>
    /\ last_result = NoPath
    /\ call_timed_out = FALSE
    /\ marked_pipes = {}
    /\ op_pipe = 0 - 1
    /\ pre_mark = [grid |-> grid, occ |-> <<>>]
    /\ pair = "none"
    /\ ever_obstacle = {}
    /\ pbs_pc = "off"
    /\ max_missing = 0
    /\ conflict_policy = 2
    /\ stack = <<>>
    /\ best_plan = NoPlan
    /\ root_plan = NoPlan
    /\ result = NoPlan
    /\ nodes_expanded = 0
    /\ max_depth = 0
    /\ timeouts = 0
    /\ accepts = 0
    /\ ll_calls = <<>>
    /\ created = <<>>
    /\ last_branch = NoBranch
    /\ last_step = "none"
    /\ det_op = "off"
    /\ det_conflicts = {}
    /\ FixOff
    /\ UnitsOff

\* Environment.add_obstacle(o)
AddObstacle ==
    /\ ops < MaxOps
    /\ \E o \in Candidates :
          /\ obstacles' = Append(obstacles, o)
          /\ grid' = add_obstacle_grid(grid_size, grid, o)
          /\ ever_obstacle' = ever_obstacle \cup
                                {c \in obstacle_cells(o) : is_valid_cell(grid_size, c)}
    /\ ops' = ops + 1
    /\ last_op' = "add_obstacle"
    /\ pair' = "none"
    /\ UNCHANGED <<grid_size, occupation_map, pipes, entry_grid, entry_occ, call_pipe,
                   call_hp, last_result, call_timed_out, markVars, pbsVars, detVars, fixVars, unitVars>>

\* Environment.mark_pipe_path(pipe)
MarkPipePath ==
    /\ ops < MaxOps
    /\ \E id \in PipeIds :
          LET env == mark_pipe_path(grid_size, [grid |-> grid, occ |-> occupation_map],
                                    PipeOf(pipes, id))
          IN  /\ grid' = env.grid
              /\ occupation_map' = env.occ
              /\ marked_pipes' = marked_pipes \cup {id}
              /\ op_pipe' = id
    /\ pre_mark' = [grid |-> grid, occ |-> occupation_map]
    /\ pair' = "marked"
    /\ ops' = ops + 1
    /\ last_op' = "mark_pipe_path"
    /\ UNCHANGED <<grid_size, obstacles, pipes, entry_grid, entry_occ, call_pipe, call_hp,
                   last_result, ever_obstacle, call_timed_out, pbsVars, detVars, fixVars, unitVars>>

\* Environment.unmark_pipe_path(pipe)
UnmarkPipePath ==
    /\ ops < MaxOps
    /\ \E id \in PipeIds :
          LET env == unmark_pipe_path(grid_size, [grid |-> grid, occ |-> occupation_map],
                                      PipeOf(pipes, id))
          IN  /\ grid' = env.grid
              /\ occupation_map' = env.occ
              /\ marked_pipes' = marked_pipes \ {id}
              /\ op_pipe' = id
              /\ pair' = IF pair = "marked" /\ op_pipe = id THEN "unmarked" ELSE "none"
    /\ ops' = ops + 1
    /\ last_op' = "unmark_pipe_path"
    /\ UNCHANGED <<grid_size, obstacles, pipes, entry_grid, entry_occ, call_pipe, call_hp,
                   last_result, ever_obstacle, call_timed_out, pre_mark, pbsVars, detVars, fixVars, unitVars>>

\* AStarSolver.solve(pipe, obstacles_pipes), with or without deadline expiry
Solve ==
    /\ ops < MaxOps
    /\ \E id \in PipeIds : \E hp \in HpLists(id) : \E timed_out \in BOOLEAN :
          LET hps == [k \in 1..Len(hp) |-> PipeOf(pipes, hp[k])]
              r == solve(grid_size, [grid |-> grid, occ |-> occupation_map],
                         PipeOf(pipes, id), hps, timed_out)
          IN  /\ grid' = r.env.grid
              /\ occupation_map' = r.env.occ
              /\ last_result' = r.path
              /\ call_pipe' = id
              /\ call_hp' = hps
              /\ call_timed_out' = timed_out
              /\ marked_pipes' = marked_pipes \ Range(hp)
    /\ entry_grid' = grid
    /\ entry_occ' = occupation_map
    /\ pair' = "none"
    /\ ops' = ops + 1
    /\ last_op' = "solve"
    /\ UNCHANGED <<grid_size, obstacles, pipes, ever_obstacle, op_pipe, pre_mark, pbsVars,
                   detVars, fixVars, unitVars>>

\* pipe.set_path(path) with the path the router just returned, as PBS and
\* FixOrder do after a successful call
SetPath ==
    /\ last_op = "solve"
    /\ last_result # NoPath
    /\ pipes' = [pipes EXCEPT ![call_pipe + 1] = set_path(@, last_result)]
    /\ last_op' = "set_path"
    /\ pair' = "none"
    /\ UNCHANGED <<grid_size, grid, occupation_map, obstacles, ops, entry_grid, entry_occ,
                   call_pipe, call_hp, last_result, ever_obstacle, call_timed_out, markVars,
                   pbsVars, detVars, fixVars, unitVars>>

Next == AddObstacle \/ MarkPipePath \/ UnmarkPipePath \/ Solve \/ SetPath

Spec == Init /\ [][Next]_vars

\* ---------------------------------------------------------------- PBS (CTNode-based)
\* Instances PBS is run on. PbsCross is the two-pipe crossing on the 5x5x1
\* grid; PbsThree has three pipes around one obstacle voxel.
PbsCross ==
    [size |-> <<5, 5, 1>>, obstacles |-> {},
     pipes |-> <<Pipe(0, <<0, 2, 0>>, <<4, 2, 0>>, 1),
                 Pipe(1, <<2, 0, 0>>, <<2, 4, 0>>, 1)>>]

PbsThree ==
    [size |-> <<4, 3, 1>>, obstacles |-> {Obstacle("o", <<2, 1, 0>>, <<2, 1, 0>>)},
     pipes |-> <<Pipe(0, <<3, 0, 0>>, <<1, 0, 0>>, 1),
                 Pipe(1, <<1, 2, 0>>, <<3, 1, 0>>, 1),
                 Pipe(2, <<3, 2, 0>>, <<0, 1, 0>>, 1)>>]

\* A pipe whose start is its goal, lying on the straight route of the other
PbsPoint ==
    [size |-> <<3, 3, 1>>, obstacles |-> {},
     pipes |-> <<Pipe(0, <<0, 1, 0>>, <<2, 1, 0>>, 1),
                 Pipe(1, <<1, 1, 0>>, <<1, 1, 0>>, 1)>>]

\* Three pipes on two layers; the goal of pipe 2 is the start of pipe 1
PbsLayers ==
    [size |-> <<3, 2, 2>>, obstacles |-> {},
     pipes |-> <<Pipe(0, <<2, 0, 0>>, <<2, 1, 1>>, 1),
                 Pipe(1, <<0, 1, 0>>, <<1, 0, 1>>, 1),
                 Pipe(2, <<2, 0, 1>>, <<0, 1, 0>>, 1)>>]

PbsInstances == {PbsCross, PbsThree, PbsPoint, PbsLayers}

\* The grid after add_obstacle of every obstacle of the instance
LoadedGrid(i) ==
    [c \in Cells(i.size) |->
        IF \E o \in i.obstacles : c \in obstacle_cells(o) THEN OBSTACLE ELSE FREE]

\* Environment and PBS constructed (InstanceLoader, PBS.__init__); solve not
\* yet called
InitPBS ==
    /\ \E i \in PbsInstances :
          /\ grid_size = i.size
          /\ grid = LoadedGrid(i)
          /\ pipes = i.pipes
          /\ ever_obstacle = {c \in Cells(i.size) : LoadedGrid(i)[c] = OBSTACLE}
    /\ occupation_map = <<>>
    /\ obstacles = <<>>
    /\ ops = 0
    /\ last_op = "init"
    /\ entry_grid = grid
    /\ entry_occ = <<>>
    /\ call_pipe = 0 - 1
    /\ call_hp = <<>>
    /\ last_result = NoPath
    /\ call_timed_out = FALSE
    /\ marked_pipes = {}
    /\ op_pipe = 0 - 1
    /\ pre_mark = [grid |-> grid, occ |-> <<>>]
    /\ pair = "none"
    /\ pbs_pc = "start"
    /\ max_missing \in {0, INF_MISSING}
    /\ conflict_policy \in {1, 2}
    /\ stack = <<>>
    /\ best_plan = NoPlan
    /\ root_plan = NoPlan
    /\ result = NoPlan
    /\ nodes_expanded = 0
    /\ max_depth = 0
    /\ timeouts = 0
    /\ accepts = 0
    /\ ll_calls = <<>>
    /\ created = <<>>
    /\ last_branch = NoBranch
    /\ last_step = "none"
    /\ det_op = "off"
    /\ det_conflicts = {}
    /\ FixOff
    /\ UnitsOff

\* PBS._independent_routing on st = [pipes, env], pipe k of the list; late is
\* the set of ids whose call hits the per-call deadline
RECURSIVE independent_routing(_, _, _, _)
independent_routing(gs, st, k, late) ==
    IF k > Len(st.pipes) THEN st
    ELSE LET r == solve(gs, st.env, st.pipes[k], <<>>, st.pipes[k].id \in late)
         IN  independent_routing(gs,
                 [pipes |-> IF r.path # NoPath
                            THEN [st.pipes EXCEPT ![k] = set_path(@, r.path)]
                            ELSE st.pipes,
                  env |-> r.env],
                 k + 1, late)

\* Ids of the pipes for which solver.solve returned a path (line 132) in the
\* loop of _independent_routing
RECURSIVE independent_routing_returned(_, _, _, _)
independent_routing_returned(gs, st, k, late) ==
    IF k > Len(st.pipes) THEN {}
    ELSE LET r == solve(gs, st.env, st.pipes[k], <<>>, st.pipes[k].id \in late)
         IN  (IF r.path # NoPath THEN {st.pipes[k].id} ELSE {})
                 \cup independent_routing_returned(gs, [st EXCEPT !.env = r.env], k + 1, late)

\* PBS._get_higher_priority_pipes: the routed pipes h with (h, pipe_id) in
\* the constraint set (listed in ascending id)
RECURSIVE SeqOfSet(_)
SeqOfSet(S) == IF S = {} THEN <<>> ELSE <<Min(S)>> \o SeqOfSet(S \ {Min(S)})

\* Every routed pipe other than pipe_id handed over, constrained or not
get_higher_priority_pipes_all_routed(plan, pipe_id, constraints) ==
    LET ids == {plan[k].id : k \in {j \in 1..Len(plan) :
                                      plan[j].id # pipe_id /\ has_path(plan[j])}}
        order == SeqOfSet(ids)
    IN  [k \in 1..Len(order) |-> PipeOf(plan, order[k])]

get_higher_priority_pipes(plan, pipe_id, constraints) ==
    LET ids == {c[1] : c \in {d \in constraints : d[2] = pipe_id /\ has_path(PipeOf(plan, d[1]))}}
        order == SeqOfSet(ids)
    IN  [k \in 1..Len(order) |-> PipeOf(plan, order[k])]

\* A copy that builds a new Plan around the same Pipe objects
plan_copy_shallow(plan) == [pipes |-> plan, shares_pipes |-> TRUE]

\* Plan.copy: every pipe is deep-copied, so the copy shares no Pipe object
\* with the plan it was taken from; a write to a pipe of the copy reaches
\* the original only if the two share pipes
plan_copy(plan) == [pipes |-> plan, shares_pipes |-> FALSE]

\* lower_pipe.set_path(path) on a plan
write_path(plan, lower, path) == [plan EXCEPT ![lower + 1] = set_path(@, path)]

\* The plans of the nodes created so far, as seen after a write to a pipe
\* of a plan that shares its pipes with them
written_through(children, lower, path) ==
    [k \in 1..Len(children) |->
        [children[k] EXCEPT !.plan = write_path(@, lower, path)]]

\* A plan after the writes of the low-level calls that created a child
RECURSIVE plan_after_writes(_, _)
plan_after_writes(plan, calls) ==
    IF calls = <<>> THEN plan
    ELSE LET c == Head(calls)
         IN  plan_after_writes(IF c.child THEN write_path(plan, c.lower, c.path) ELSE plan,
                               Tail(calls))

\* A plan as its holder sees it after low-level calls were made on copies of
\* it: the writes reach it only if the copies share its pipes
held_plan(plan, calls) ==
    IF plan_copy(plan).shares_pipes THEN plan_after_writes(plan, calls) ELSE plan

\* One pass of the loop of PBS._branch (lines 162-194) for the order
\* higher -> lower; acc holds the children created so far, the environment,
\* the low-level calls made and the parent's plan as it is now
branch_one(gs, mm, node, acc, higher, lower, timed_out) ==
    LET new_constraint == <<higher, lower>>
        test_constraints == node.constraints \cup {new_constraint}
    IN  IF ~is_consistent(test_constraints) THEN acc
        ELSE LET copied == plan_copy(acc.parent)
                 child_plan == copied.pipes
                 lower_pipe == PipeOf(child_plan, lower)
                 hp == get_higher_priority_pipes(child_plan, lower, test_constraints)
                 r == solve(gs, acc.env, lower_pipe, hp, timed_out)
                 replanned == write_path(child_plan, lower, r.path)
                 call(child) == [higher |-> higher, lower |-> lower,
                                 hp |-> {hp[k].id : k \in 1..Len(hp)},
                                 constraints |-> test_constraints,
                                 timed_out |-> timed_out, path |-> r.path,
                                 num_missing |-> num_missing(replanned),
                                 child |-> child]
                 written(path) ==
                     [children |->
                          Append(IF copied.shares_pipes
                                 THEN written_through(acc.children, lower, path)
                                 ELSE acc.children,
                                 create_child(node, write_path(child_plan, lower, path),
                                              new_constraint)),
                      env |-> r.env, calls |-> Append(acc.calls, call(TRUE)),
                      parent |-> IF copied.shares_pipes
                                 THEN write_path(acc.parent, lower, path)
                                 ELSE acc.parent]
             IN  IF r.path # NoPath
                 THEN written(r.path)
                 ELSE IF num_missing(child_plan) <= mm
                 THEN written(NoPath)
                 ELSE [children |-> acc.children, env |-> r.env,
                       calls |-> Append(acc.calls, call(FALSE)),
                       parent |-> acc.parent]

\* PBS._branch for the selected conflict; to1, to2: deadline expiry of the
\* low-level call of the first and of the second order
branch(gs, mm, node, env, conflict, to1, to2) ==
    branch_one(gs, mm, node,
               branch_one(gs, mm, node,
                          [children |-> <<>>, env |-> env, calls |-> <<>>,
                           parent |-> node.plan],
                          conflict[1], conflict[2], to1),
               conflict[2], conflict[1], to2)

\* The children sorted by quality without reverse=True: the better one first
sort_children_ascending(children) ==
    IF Len(children) = 2
       /\ QualityLess(get_quality(children[2].plan), get_quality(children[1].plan))
    THEN <<children[2], children[1]>>
    ELSE children

\* children.sort(key=get_quality, reverse=True): stable, worse quality first
sort_children(children) ==
    IF Len(children) = 2
       /\ QualityLess(get_quality(children[1].plan), get_quality(children[2].plan))
    THEN <<children[2], children[1]>>
    ELSE children

CountTrue(flags) == Cardinality({k \in 1..Len(flags) : flags[k]})

\* PBS.solve lines 52-68: independent routing, root node, stack
PBSStart ==
    /\ pbs_pc = "start"
    /\ \E late \in SUBSET PipeIds :
          /\ timeouts + Cardinality(late) <= MaxTimeouts
          /\ LET st == independent_routing(grid_size,
                            [pipes |-> pipes, env |-> [grid |-> grid, occ |-> occupation_map]],
                            1, late)
             IN  /\ pipes' = st.pipes
                 /\ grid' = st.env.grid
                 /\ occupation_map' = st.env.occ
                 /\ root_plan' = st.pipes
                 /\ stack' = <<CTNode(st.pipes)>>
          /\ timeouts' = timeouts + Cardinality(late)
    /\ best_plan' = NoPlan
    /\ pbs_pc' = "loop"
    /\ UNCHANGED <<grid_size, obstacles, ops, last_op, entry_grid, entry_occ, call_pipe,
                   call_hp, last_result, ever_obstacle, call_timed_out, markVars, pair,
                   max_missing, conflict_policy, result,
                   nodes_expanded, max_depth, accepts, ll_calls, created, last_branch,
                   detVars, fixVars, unitVars>>
    /\ last_step' = "start"

\* The popped node and the bookkeeping common to every iteration (lines 71-75)
Top == stack[Len(stack)]

Popped == SubSeq(stack, 1, Len(stack) - 1)

LoopGuard == pbs_pc = "loop" /\ stack # <<>> /\ nodes_expanded < MaxNodes

Bookkeeping ==
    /\ nodes_expanded' = nodes_expanded + 1
    /\ max_depth' = IF Top.depth > max_depth THEN Top.depth ELSE max_depth

\* Pruning that also discards every node while nothing was accepted yet
ShouldPruneWithoutBest(node) == best_plan = NoPlan \/ ~is_better_than(node.plan, best_plan)

\* Lines 83-85: the node is not better than best_plan
ShouldPrune(node) == best_plan # NoPlan /\ ~is_better_than(node.plan, best_plan)

\* Acceptance on the absence of conflicts alone
ShouldAcceptConflictFree(node) == ~has_conflicts(node.plan)

\* Lines 88-89: no conflicts and feasible
ShouldAccept(node) == ~has_conflicts(node.plan) /\ is_feasible(node.plan, max_missing)

PBSPrune ==
    /\ LoopGuard
    /\ ShouldPrune(Top)
    /\ Bookkeeping
    /\ last_step' = "prune"
    /\ stack' = Popped
    /\ ll_calls' = <<>>
    /\ created' = <<>>
    /\ last_branch' = NoBranch
    /\ UNCHANGED <<envVars, detVars, fixVars, unitVars, pbs_pc, max_missing, conflict_policy, best_plan,
                   root_plan, result, timeouts, accepts>>

\* Lines 88-95, feasible: best_plan = node.plan
PBSAccept ==
    /\ LoopGuard
    /\ ~ShouldPrune(Top)
    /\ ShouldAccept(Top)
    /\ Bookkeeping
    /\ best_plan' = Top.plan
    /\ accepts' = accepts + 1
    /\ last_step' = "accept"
    /\ stack' = Popped
    /\ ll_calls' = <<>>
    /\ created' = <<>>
    /\ last_branch' = NoBranch
    /\ UNCHANGED <<envVars, detVars, fixVars, unitVars, pbs_pc, max_missing, conflict_policy, root_plan,
                   result, timeouts>>

\* Lines 88-95, conflict-free but not feasible: continue
PBSInfeasible ==
    /\ LoopGuard
    /\ ~ShouldPrune(Top)
    /\ ~has_conflicts(Top.plan)
    /\ ~is_feasible(Top.plan, max_missing)
    /\ Bookkeeping
    /\ last_step' = "infeasible"
    /\ stack' = Popped
    /\ ll_calls' = <<>>
    /\ created' = <<>>
    /\ last_branch' = NoBranch
    /\ UNCHANGED <<envVars, detVars, fixVars, unitVars, pbs_pc, max_missing, conflict_policy, best_plan,
                   root_plan, result, timeouts, accepts>>

\* Lines 97-102: branch on a selected conflict, sort, push
PBSBranch ==
    /\ LoopGuard
    /\ ~ShouldPrune(Top)
    /\ has_conflicts(Top.plan)
    /\ ~select_conflict_raises(Top.plan, conflict_policy)
    /\ Bookkeeping
    /\ last_step' = "branch"
    /\ \E conflict \in select_conflict(Top.plan, conflict_policy) :
       \E to1, to2 \in BOOLEAN :
          LET b == branch(grid_size, max_missing, Top,
                          [grid |-> grid, occ |-> occupation_map], conflict, to1, to2)
              late == CountTrue(<<to1, to2>>)
          IN  /\ to1 => is_consistent(Top.constraints \cup {<<conflict[1], conflict[2]>>})
              /\ to2 => is_consistent(Top.constraints \cup {<<conflict[2], conflict[1]>>})
              /\ timeouts + late <= MaxTimeouts
              /\ timeouts' = timeouts + late
              /\ grid' = b.env.grid
              /\ occupation_map' = b.env.occ
              /\ stack' = Popped \o sort_children(b.children)
              /\ ll_calls' = b.calls
              /\ created' = b.children
              /\ last_branch' = [conflict |-> conflict, parent |-> Top.constraints,
                                  plan |-> held_plan(Top.plan, ll_calls')]
              /\ root_plan' = IF Top.depth = 0 THEN last_branch'.plan ELSE root_plan
    /\ UNCHANGED <<grid_size, obstacles, pipes, ops, last_op, entry_grid, entry_occ,
                   call_pipe, call_hp, last_result, ever_obstacle, call_timed_out, markVars,
                   pair, pbs_pc, max_missing,
                   conflict_policy, best_plan, result, accepts, detVars, fixVars, unitVars>>

\* Lines 98 and 150-153: select_conflict raises inside _branch; nothing
\* catches it, so solve ends in the exception and returns no plan
PBSRaise ==
    /\ LoopGuard
    /\ ~ShouldPrune(Top)
    /\ has_conflicts(Top.plan)
    /\ select_conflict_raises(Top.plan, conflict_policy)
    /\ Bookkeeping
    /\ last_step' = "raise"
    /\ pbs_pc' = "raised"
    /\ stack' = Popped
    /\ ll_calls' = <<>>
    /\ created' = <<>>
    /\ last_branch' = NoBranch
    /\ UNCHANGED <<envVars, detVars, fixVars, unitVars, max_missing, conflict_policy, best_plan,
                   root_plan, result, timeouts, accepts>>

\* A return that hands back the independent-routing plan whatever was accepted
PBSReturnRoot ==
    /\ pbs_pc = "loop"
    /\ result' = root_plan
    /\ pbs_pc' = "done"
    /\ last_step' = "return"
    /\ UNCHANGED <<envVars, detVars, fixVars, unitVars, max_missing, conflict_policy, stack, best_plan,
                   root_plan, nodes_expanded, max_depth, timeouts, accepts, ll_calls,
                   created, last_branch>>

\* A return without the fallback of lines 115-117 to the root plan
PBSReturnNoFallback ==
    /\ pbs_pc = "loop"
    /\ result' = best_plan
    /\ pbs_pc' = "done"
    /\ last_step' = "return"
    /\ UNCHANGED <<envVars, detVars, fixVars, unitVars, max_missing, conflict_policy, stack, best_plan,
                   root_plan, nodes_expanded, max_depth, timeouts, accepts, ll_calls,
                   created, last_branch>>

\* Lines 71 and 104-119: the loop ends (stack empty, or the global deadline
\* has passed at the test) and solve returns
PBSReturn ==
    /\ pbs_pc = "loop"
    /\ result' = IF best_plan # NoPlan THEN best_plan ELSE root_plan
    /\ pbs_pc' = "done"
    /\ last_step' = "return"
    /\ UNCHANGED <<envVars, detVars, fixVars, unitVars, max_missing, conflict_policy, stack, best_plan,
                   root_plan, nodes_expanded, max_depth, timeouts, accepts, ll_calls,
                   created, last_branch>>

NextPBS ==
    \/ PBSStart \/ PBSPrune \/ PBSAccept \/ PBSInfeasible \/ PBSBranch \/ PBSRaise
    \/ PBSReturn

SpecPBS == InitPBS /\ [][NextPBS]_vars

\* ---------------------------------------------------------------- conflict detector
\* The detector applied to plans of three routed pipes: every triple of the
\* routes below, the first two pipes with every diameter up to MaxDiameter.
DetSize == <<3, 3, 1>>

DetRoutes ==
    {<<<<0, 0, 0>>, <<1, 0, 0>>, <<2, 0, 0>>>>,
     <<<<0, 1, 0>>, <<1, 1, 0>>, <<2, 1, 0>>>>,
     <<<<0, 2, 0>>, <<1, 2, 0>>, <<2, 2, 0>>>>,
     <<<<1, 0, 0>>, <<1, 1, 0>>, <<1, 2, 0>>>>,
     <<<<0, 0, 0>>, <<0, 1, 0>>, <<0, 2, 0>>, <<1, 2, 0>>>>}

DetPipe(pipe_id, route, diameter) ==
    set_path(Pipe(pipe_id, Head(route), Last(route), diameter), route)

InitDetect ==
    /\ grid_size = DetSize
    /\ grid = [c \in Cells(DetSize) |-> FREE]
    /\ \E r0, r1 \in DetRoutes : \E d0, d1 \in 1..MaxDiameter :
          \E r2 \in DetRoutes :
              pipes = <<DetPipe(0, r0, d0), DetPipe(1, r1, d1), DetPipe(2, r2, 1)>>
    /\ occupation_map = <<>>
    /\ obstacles = <<>>
    /\ ops = 0
    /\ last_op = "init"
    /\ entry_grid = grid
    /\ entry_occ = <<>>
    /\ call_pipe = 0 - 1
    /\ call_hp = <<>>
    /\ last_result = NoPath
    /\ call_timed_out = FALSE
    /\ marked_pipes = {}
    /\ op_pipe = 0 - 1
    /\ pre_mark = [grid |-> grid, occ |-> <<>>]
    /\ pair = "none"
    /\ ever_obstacle = {}
    /\ pbs_pc = "off"
    /\ max_missing = 0
    /\ conflict_policy = 2
    /\ stack = <<>>
    /\ best_plan = NoPlan
    /\ root_plan = NoPlan
    /\ result = NoPlan
    /\ nodes_expanded = 0
    /\ max_depth = 0
    /\ timeouts = 0
    /\ accepts = 0
    /\ ll_calls = <<>>
    /\ created = <<>>
    /\ last_branch = NoBranch
    /\ last_step = "none"
    /\ det_op = "init"
    /\ det_conflicts = {}
    /\ FixOff
    /\ UnitsOff

\* conflicts = manager.find_all_conflicts(plan)
DetFindAllConflicts ==
    /\ det_op # "find"
    /\ det_conflicts' = find_all_conflicts(pipes)
    /\ det_op' = "find"
    /\ UNCHANGED <<envVars, pbsVars, fixVars, unitVars>>

\* pipe.set_path(None): the pipe becomes a missing pipe of the plan
DetClearPath ==
    /\ \E id \in PipeIds :
          /\ has_path(PipeOf(pipes, id))
          /\ pipes' = [pipes EXCEPT ![id + 1] = set_path(@, NoPath)]
    /\ det_op' = "set_path"
    /\ UNCHANGED <<grid_size, grid, occupation_map, obstacles, ops, last_op, entry_grid,
                   entry_occ, call_pipe, call_hp, last_result, ever_obstacle, call_timed_out,
                   markVars, pair, pbsVars, det_conflicts, fixVars, unitVars>>

NextDetect == DetFindAllConflicts \/ DetClearPath

SpecDetect == InitDetect /\ [][NextDetect]_vars

\* ---------------------------------------------------------------- mark / unmark
\* PBS and the conflict detector not in use
PbsOff ==
    /\ pbs_pc = "off"
    /\ max_missing = 0
    /\ conflict_policy = 2
    /\ stack = <<>>
    /\ best_plan = NoPlan
    /\ root_plan = NoPlan
    /\ result = NoPlan
    /\ nodes_expanded = 0
    /\ max_depth = 0
    /\ timeouts = 0
    /\ accepts = 0
    /\ ll_calls = <<>>
    /\ created = <<>>
    /\ last_branch = NoBranch
    /\ last_step = "none"

DetOff == det_op = "off" /\ det_conflicts = {}

\* No solve, mark or unmark call made yet
NoCallYet ==
    /\ ops = 0
    /\ last_op = "init"
    /\ entry_grid = grid
    /\ entry_occ = <<>>
    /\ call_pipe = 0 - 1
    /\ call_hp = <<>>
    /\ last_result = NoPath
    /\ call_timed_out = FALSE
    /\ marked_pipes = {}
    /\ op_pipe = 0 - 1
    /\ pre_mark = [grid |-> grid, occ |-> <<>>]
    /\ pair = "none"

\* An environment instance loaded with none or one of its candidate
\* obstacles, every pipe routed on its own (PBS._independent_routing), no
\* pipe marked
InitMark ==
    /\ \E i \in EnvInstances : \E obs \in {<<>>} \cup {<<o>> : o \in i.candidates} :
          LET loaded == LoadedGrid([size |-> i.size, obstacles |-> Range(obs)])
              st == independent_routing(i.size,
                        [pipes |-> i.pipes, env |-> [grid |-> loaded, occ |-> <<>>]], 1, {})
          IN  /\ grid_size = i.size
              /\ obstacles = obs
              /\ grid = st.env.grid
              /\ occupation_map = st.env.occ
              /\ pipes = st.pipes
              /\ ever_obstacle = {c \in Cells(i.size) : loaded[c] = OBSTACLE}
    /\ NoCallYet
    /\ PbsOff
    /\ DetOff
    /\ FixOff
    /\ UnitsOff

NextMark == MarkPipePath \/ UnmarkPipePath

SpecMark == InitMark /\ [][NextMark]_vars

\* ---------------------------------------------------------------- the router on one pipe
\* One low-level call for a pipe with any start and goal of a 3x3x2 grid:
\* empty, with a wall that leaves the row y = 2 open, or with the corner
\* column (0, 0, *) walled in. Pipe 1 is routed along the row y = 2 of the
\* lower layer and may be passed as a higher-priority pipe.
RouteSize == <<3, 3, 2>>

RouteObstacleLists ==
    {<<>>,
     <<Obstacle("wall", <<1, 0, 0>>, <<1, 1, 1>>)>>,
     <<Obstacle("corner_x", <<1, 0, 0>>, <<1, 0, 1>>),
       Obstacle("corner_y", <<0, 1, 0>>, <<0, 1, 1>>)>>}

RouteOther ==
    set_path(Pipe(1, <<0, 2, 0>>, <<2, 2, 0>>, 1),
             <<<<0, 2, 0>>, <<1, 2, 0>>, <<2, 2, 0>>>>)

InitRoute ==
    /\ grid_size = RouteSize
    /\ \E obs \in RouteObstacleLists :
          /\ obstacles = obs
          /\ grid = LoadedGrid([size |-> RouteSize, obstacles |-> Range(obs)])
    /\ ever_obstacle = {c \in Cells(RouteSize) : grid[c] = OBSTACLE}
    /\ occupation_map = <<>>
    /\ \E start, goal \in Cells(RouteSize) : \E diameter \in 1..MaxDiameter :
          pipes = <<Pipe(0, start, goal, diameter), RouteOther>>
    /\ NoCallYet
    /\ PbsOff
    /\ DetOff
    /\ FixOff
    /\ UnitsOff

\* solver.solve(pipe 0, []) or solver.solve(pipe 0, [pipe 1]), with or
\* without deadline expiry
RoutePipe ==
    /\ last_op = "init"
    /\ \E hp \in {<<>>, <<1>>} : \E timed_out \in BOOLEAN :
          LET hps == [k \in 1..Len(hp) |-> PipeOf(pipes, hp[k])]
              r == solve(grid_size, [grid |-> grid, occ |-> occupation_map],
                         PipeOf(pipes, 0), hps, timed_out)
          IN  /\ grid' = r.env.grid
              /\ occupation_map' = r.env.occ
              /\ last_result' = r.path
              /\ call_hp' = hps
              /\ call_timed_out' = timed_out
    /\ call_pipe' = 0
    /\ entry_grid' = grid
    /\ entry_occ' = occupation_map
    /\ ops' = ops + 1
    /\ last_op' = "solve"
    /\ UNCHANGED <<grid_size, obstacles, pipes, ever_obstacle, markVars, pair, pbsVars,
                   detVars, fixVars, unitVars>>

NextRoute == RoutePipe \/ SetPath

SpecRoute == InitRoute /\ [][NextRoute]_vars

\* ---------------------------------------------------------------- FixOrder
\* estimate_cost: Manhattan distance times diameter
estimate_cost(pipe) ==
    (Abs(pipe.goal[1] - pipe.start[1]) + Abs(pipe.goal[2] - pipe.start[2])
     + Abs(pipe.goal[3] - pipe.start[3])) * pipe.diameter

\* sorted(pipes, key=estimate_cost, reverse=True): the largest estimate first,
\* pipes of equal estimate in their list order
RECURSIVE sort_pipes_by_cost(_)
sort_pipes_by_cost(ps) ==
    IF ps = <<>> THEN <<>>
    ELSE LET k == CHOOSE i \in 1..Len(ps) :
                     /\ \A j \in 1..Len(ps) : estimate_cost(ps[j]) <= estimate_cost(ps[i])
                     /\ \A j \in 1..(i - 1) : estimate_cost(ps[j]) < estimate_cost(ps[i])
         IN  <<ps[k]>> \o sort_pipes_by_cost(SubSeq(ps, 1, k - 1) \o SubSeq(ps, k + 1, Len(ps)))

\* The loop of FixOrder.solve from the k-th pipe of the sorted list on.
\* st: the caller's pipes, the environment, the ids routed so far and whether
\* the success message raised (pipe.length is None after a single-vertex
\* path, and formatting it with :.1f is a TypeError). late: the pipes whose
\* low-level call hits its deadline.
RECURSIVE fix_order_loop(_, _, _, _, _)
fix_order_loop(gs, st, sorted_pipes, k, late) ==
    IF k > Len(sorted_pipes) \/ st.raised THEN st
    ELSE LET id == sorted_pipes[k].id
             hp == [j \in 1..Len(st.routed) |-> PipeOf(st.pipes, st.routed[j])]
             r == solve(gs, st.env, PipeOf(st.pipes, id), hp, id \in late)
             routed == set_path(PipeOf(st.pipes, id), r.path)
         IN  fix_order_loop(gs,
                 IF r.path # NoPath
                 THEN [pipes |-> [st.pipes EXCEPT ![id + 1] = routed],
                       env |-> r.env,
                       routed |-> Append(st.routed, id),
                       raised |-> routed.length = NoValue]
                 ELSE [st EXCEPT !.env = r.env],
                 sorted_pipes, k + 1, late)

\* FixOrder.solve(pipes)
fix_order(gs, env, ps, late) ==
    fix_order_loop(gs, [pipes |-> ps, env |-> env, routed |-> <<>>, raised |-> FALSE],
                   sort_pipes_by_cost(ps), 1, late)

\* The instances FixOrder is run on: a 3x3x1 grid, pipe 0 straight through the
\* middle row, pipe 1 between any two cells
FixSize == <<3, 3, 1>>

\* Environment, pipes and FixOrder constructed; solve not yet called
InitFix ==
    /\ grid_size = FixSize
    /\ grid = [c \in Cells(FixSize) |-> FREE]
    /\ occupation_map = <<>>
    /\ obstacles = <<>>
    /\ ever_obstacle = {}
    /\ \E s, g \in Cells(FixSize) :
          pipes = <<Pipe(0, <<0, 1, 0>>, <<2, 1, 0>>, 1), Pipe(1, s, g, 1)>>
    /\ NoCallYet
    /\ PbsOff
    /\ DetOff
    /\ fo_pc = "ready"
    /\ routed_pipes = <<>>
    /\ fo_plan = NoPlan
    /\ run_returned = {}
    /\ UnitsOff

\* plan = FixOrder(environment, solver).solve(pipes)
FixOrderSolve ==
    /\ fo_pc = "ready"
    /\ \E late \in SUBSET PipeIds :
          /\ Cardinality(late) <= MaxTimeouts
          /\ LET st == fix_order(grid_size, [grid |-> grid, occ |-> occupation_map],
                                 pipes, late)
             IN  /\ pipes' = st.pipes
                 /\ grid' = st.env.grid
                 /\ occupation_map' = st.env.occ
                 /\ routed_pipes' = st.routed
                 /\ run_returned' = Range(st.routed)
                 /\ fo_pc' = IF st.raised THEN "raised" ELSE "done"
                 /\ fo_plan' = IF st.raised THEN NoPlan ELSE st.pipes
    /\ UNCHANGED <<grid_size, obstacles, ops, last_op, entry_grid, entry_occ, call_pipe,
                   call_hp, last_result, ever_obstacle, call_timed_out, markVars, pair,
                   pbsVars, detVars, unitVars>>

\* A second FixOrder(environment, solver).solve(pipes) on the Pipe objects the
\* first call returned in its plan
FixOrderSolveAgain ==
    /\ fo_pc = "done"
    /\ \E late \in SUBSET PipeIds :
          /\ Cardinality(late) <= MaxTimeouts
          /\ LET st == fix_order(grid_size, [grid |-> grid, occ |-> occupation_map],
                                 pipes, late)
             IN  /\ pipes' = st.pipes
                 /\ grid' = st.env.grid
                 /\ occupation_map' = st.env.occ
                 /\ routed_pipes' = st.routed
                 /\ run_returned' = Range(st.routed)
                 /\ fo_pc' = IF st.raised THEN "raised" ELSE "rerun"
                 /\ fo_plan' = IF st.raised THEN NoPlan ELSE st.pipes
    /\ UNCHANGED <<grid_size, obstacles, ops, last_op, entry_grid, entry_occ, call_pipe,
                   call_hp, last_result, ever_obstacle, call_timed_out, markVars, pair,
                   pbsVars, detVars, unitVars>>

\* PBS(environment, solver)._independent_routing(pipes), the first step of
\* PBS.solve, on the Pipe objects FixOrder.solve returned in its plan
IndependentRoutingAfterFixOrder ==
    /\ fo_pc = "done"
    /\ \E late \in SUBSET PipeIds :
          /\ Cardinality(late) <= MaxTimeouts
          /\ LET st0 == [pipes |-> pipes, env |-> [grid |-> grid, occ |-> occupation_map]]
                 st == independent_routing(grid_size, st0, 1, late)
             IN  /\ pipes' = st.pipes
                 /\ grid' = st.env.grid
                 /\ occupation_map' = st.env.occ
                 /\ run_returned' = independent_routing_returned(grid_size, st0, 1, late)
                 /\ fo_plan' = st.pipes
    /\ fo_pc' = "independent"
    /\ UNCHANGED <<grid_size, obstacles, ops, last_op, entry_grid, entry_occ, call_pipe,
                   call_hp, last_result, ever_obstacle, call_timed_out, markVars, pair,
                   pbsVars, detVars, routed_pipes, unitVars>>

NextFix == FixOrderSolve \/ FixOrderSolveAgain \/ IndependentRoutingAfterFixOrder

SpecFix == InitFix /\ [][NextFix]_vars

\* ---------------------------------------------------------------- ConstraintSet, CTNode calls
\* The pipe ids constraints are made of, and the plans nodes hold
ConsIds == {0, 1, 2}

ConsPlanA == <<Pipe(0, <<0, 0, 0>>, <<1, 0, 0>>, 1)>>

ConsPlanB == <<set_path(Pipe(0, <<0, 0, 0>>, <<1, 0, 0>>, 1), <<<<0, 0, 0>>, <<1, 0, 0>>>>)>>

\* A node of depth 0 or 1 holding any set of up to MaxConstraints constraints
\* over ConsIds, self-constraints included; nothing else is in use
InitCons ==
    /\ grid_size = <<1, 1, 1>>
    /\ grid = [c \in Cells(<<1, 1, 1>>) |-> FREE]
    /\ occupation_map = <<>>
    /\ obstacles = <<>>
    /\ ever_obstacle = {}
    /\ pipes = <<>>
    /\ NoCallYet
    /\ PbsOff
    /\ DetOff
    /\ FixOff
    /\ QualOff
    /\ DictOff
    /\ \E cs \in SUBSET (ConsIds \X ConsIds) : \E d \in {0, 1} :
          /\ Cardinality(cs) <= MaxConstraints
          /\ cs_node = [plan |-> ConsPlanA, constraints |-> cs, depth |-> d]
    /\ cs_child = NoNode
    /\ cs_op = "init"
    /\ cs_out = NoValue

\* node.constraints.is_consistent()
CsIsConsistent ==
    /\ cs_op = "init"
    /\ cs_out' = is_consistent(cs_node.constraints)
    /\ cs_op' = "is_consistent"
    /\ UNCHANGED <<cs_node, cs_child, envVars, pbsVars, detVars, fixVars, qualVars, dictVars>>

\* node.constraints.get_priority_order(); the set is iterated in some order
CsGetPriorityOrder ==
    /\ cs_op = "init"
    /\ \E clist \in Perms(cs_node.constraints) :
          cs_out' = get_priority_order(cs_node.constraints, clist)
    /\ cs_op' = "get_priority_order"
    /\ UNCHANGED <<cs_node, cs_child, envVars, pbsVars, detVars, fixVars, qualVars, dictVars>>

\* child = node.create_child(new_plan, Constraint(higher, lower))
CsCreateChild ==
    /\ cs_op = "init"
    /\ \E new_plan \in {ConsPlanA, ConsPlanB} : \E c \in ConsIds \X ConsIds :
          /\ cs_child' = create_child(cs_node, new_plan, c)
          /\ cs_node' = parent_after_add(cs_node, c)
          /\ cs_out' = [plan |-> new_plan, constraint |-> c]
    /\ cs_op' = "create_child"
    /\ UNCHANGED <<envVars, pbsVars, detVars, fixVars, qualVars, dictVars>>

\* child.add_constraint(Constraint(higher, lower)) on the node just created
CsChildAdd ==
    /\ cs_op = "create_child"
    /\ \E c \in ConsIds \X ConsIds :
          /\ cs_child' = [cs_child EXCEPT !.constraints = @ \cup {c}]
          /\ cs_node' = parent_after_add(cs_node, c)
    /\ cs_op' = "add_constraint"
    /\ UNCHANGED <<cs_out, envVars, pbsVars, detVars, fixVars, qualVars, dictVars>>

NextCons == CsIsConsistent \/ CsGetPriorityOrder \/ CsCreateChild \/ CsChildAdd

SpecCons == InitCons /\ [][NextCons]_vars

\* ---------------------------------------------------------------- QualityEvaluator
\* QualityEvaluator.evaluate
evaluate(plan) == get_quality(plan)

\* QualityEvaluator.compare with the cost compared first
compare_cost_first(plan1, plan2) ==
    LET q1 == evaluate(plan1)
        q2 == evaluate(plan2)
    IN  IF CostLess(q1[2], q2[2]) THEN 0 - 1
        ELSE IF CostLess(q2[2], q1[2]) THEN 1
        ELSE IF q1[1] < q2[1] THEN 0 - 1
        ELSE IF q1[1] > q2[1] THEN 1
        ELSE 0

\* QualityEvaluator.compare: -1, 0 or 1 (q1[1] > q2[1] on floats is q2[1] < q1[1])
compare(plan1, plan2) ==
    LET q1 == evaluate(plan1)
        q2 == evaluate(plan2)
    IN  IF q1[1] < q2[1] THEN 0 - 1
        ELSE IF q1[1] > q2[1] THEN 1
        ELSE IF CostLess(q1[2], q2[2]) THEN 0 - 1
        ELSE IF CostLess(q2[2], q1[2]) THEN 1
        ELSE 0

\* QualityEvaluator.is_better
is_better(plan1, plan2) == compare(plan1, plan2) < 0

\* The paths a pipe of the compared plans may hold: none, its start alone
\* (cost inf), the straight path, and a detour with bends
QualPaths(id) ==
    {NoPath,
     <<<<0, id, 0>>>>,
     <<<<0, id, 0>>, <<1, id, 0>>>>,
     <<<<0, id, 0>>, <<0, id, 1>>, <<1, id, 1>>, <<1, id, 0>>>>}

\* The plans compared: two pipes of diameter 1, each with one of its paths
QualPlans ==
    {<<set_path(Pipe(0, <<0, 0, 0>>, <<1, 0, 0>>, 1), p0),
       set_path(Pipe(1, <<0, 1, 0>>, <<1, 1, 0>>, 1), p1)>> :
        p0 \in QualPaths(0), p1 \in QualPaths(1)}

\* Three plans are at hand; no comparison made yet; nothing else is in use
InitQual ==
    /\ grid_size = <<1, 1, 1>>
    /\ grid = [c \in Cells(<<1, 1, 1>>) |-> FREE]
    /\ occupation_map = <<>>
    /\ obstacles = <<>>
    /\ ever_obstacle = {}
    /\ pipes = <<>>
    /\ NoCallYet
    /\ PbsOff
    /\ DetOff
    /\ FixOff
    /\ ConsOff
    /\ DictOff
    /\ q_plans \in QualPlans \X QualPlans \X QualPlans
    /\ q_out = <<>>

\* p.is_better_than(q), evaluator.compare(p, q) and evaluator.is_better(p, q)
\* for every ordered pair of the three plans
QualCompareAll ==
    /\ q_out = <<>>
    /\ q_out' = [better_than |-> [ij \in (1..3) \X (1..3) |->
                                     is_better_than(q_plans[ij[1]], q_plans[ij[2]])],
                 compare |-> [ij \in (1..3) \X (1..3) |->
                                 compare(q_plans[ij[1]], q_plans[ij[2]])],
                 is_better |-> [ij \in (1..3) \X (1..3) |->
                                   is_better(q_plans[ij[1]], q_plans[ij[2]])]]
    /\ UNCHANGED <<q_plans, envVars, pbsVars, detVars, fixVars, consVars, dictVars>>

NextQual == QualCompareAll

SpecQual == InitQual /\ [][NextQual]_vars

\* ---------------------------------------------------------------- dictionary-based PBS (pbs.py)
\* A plan is the dict pipe id -> path (None is NoPath), written as the list of
\* its values in key order (the order of the pipes); a node is the dict with
\* keys constraints (a list of (higher, lower)), plan, missing_count and cost.
\* The variables pbs_pc, max_missing, conflict_policy, stack, best_plan,
\* result and timeouts hold the state of this solve as they do for PBS-py.

\* missing_count = sum(1 for p in plan.values() if p is None)
missing_count_of(plan) == Cardinality({k \in 1..Len(plan) : plan[k] = NoPath})

\* PBS._calculate_total_cost
calculate_total_cost(plan) ==
    SumTo([k \in 1..Len(plan) |-> Len(plan[k])], Len(plan))

\* The test of _get_first_conflict on two paths: some pair of points is at
\* Euclidean distance < (diameter1 + diameter2) / 2
closer_than_safe_dist(path1, path2, diameter1, diameter2) ==
    \E pt1 \in Range(path1) : \E pt2 \in Range(path2) :
        4 * ((pt1[1] - pt2[1]) * (pt1[1] - pt2[1]) + (pt1[2] - pt2[2]) * (pt1[2] - pt2[2])
             + (pt1[3] - pt2[3]) * (pt1[3] - pt2[3]))
            < (diameter1 + diameter2) * (diameter1 + diameter2)

\* PBS._get_first_conflict: <<id1, id2>> of the first pair in key order, or
\* <<>> for None
get_first_conflict(plan, ps) ==
    LET hits == {ij \in (1..Len(plan)) \X (1..Len(plan)) :
                    /\ ij[1] < ij[2]
                    /\ plan[ij[1]] # NoPath /\ plan[ij[2]] # NoPath
                    /\ closer_than_safe_dist(plan[ij[1]], plan[ij[2]],
                                             ps[ij[1]].diameter, ps[ij[2]].diameter)}
    IN  IF hits = {} THEN <<>>
        ELSE LET first == CHOOSE ij \in hits :
                              \A o \in hits : ij[1] < o[1] \/ (ij[1] = o[1] /\ ij[2] <= o[2])
             IN  <<ps[first[1]].id, ps[first[2]].id>>

\* The routes the low-level router may find for a pipe of the instance below:
\* straight along layer z = 0, or over the top along layer z = 1
DictRoutes(id) ==
    IF id = 0 THEN {<<<<0, 1, 0>>, <<1, 1, 0>>, <<2, 1, 0>>, <<3, 1, 0>>>>,
                    <<<<0, 1, 0>>, <<0, 1, 1>>, <<1, 1, 1>>, <<2, 1, 1>>, <<3, 1, 1>>,
                      <<3, 1, 0>>>>}
    ELSE IF id = 1 THEN {<<<<1, 0, 0>>, <<1, 1, 0>>, <<1, 2, 0>>>>,
                         <<<<1, 0, 0>>, <<1, 0, 1>>, <<1, 1, 1>>, <<1, 2, 1>>, <<1, 2, 0>>>>}
    ELSE {<<<<2, 0, 0>>, <<2, 1, 0>>, <<2, 2, 0>>>>,
          <<<<2, 0, 0>>, <<2, 0, 1>>, <<2, 1, 1>>, <<2, 2, 1>>, <<2, 2, 0>>>>}

\* self.solver.solve(pipe, obstacles_pipes_paths=...): no router of the
\* repository takes this argument, so the call is the router's contract: None,
\* or a path of the pipe that shares no voxel with the given paths
solver_solve_outcomes(pipe, higher_priority_paths) ==
    {NoPath} \cup {r \in DictRoutes(pipe.id) :
                      \A h \in higher_priority_paths : Range(r) \cap Range(h) = {}}

\* PBS._replan: the plans it may return
replan_outcomes(current_plan, target_id, constraints, all_pipes) ==
    LET higher_priority_paths ==
            {current_plan[c[1] + 1] :
                c \in {d \in Range(constraints) :
                          d[2] = target_id /\ current_plan[d[1] + 1] # NoPath}}
    IN  {[current_plan EXCEPT ![target_id + 1] = r] :
            r \in solver_solve_outcomes(all_pipes[target_id + 1], higher_priority_paths)}

\* new_constraints = node['constraints'] + [(higher, lower)]
new_constraints_of(node, br) == node.constraints \o <<br>>

\* One pass of the loop over branches on st = [stack, best_plan, min_missing,
\* broke]; updated_plan is what _replan returned for this br
branch_pass(st, node, br, updated_plan, mm, od) ==
    LET new_missing == missing_count_of(updated_plan)
        new_node == [constraints |-> new_constraints_of(node, br),
                     plan |-> updated_plan,
                     missing_count |-> new_missing,
                     cost |-> calculate_total_cost(updated_plan)]
    IN  IF st.broke \/ new_missing > mm THEN st
        ELSE [stack |-> Append(st.stack, new_node),
              best_plan |-> IF new_missing < st.min_missing THEN updated_plan
                            ELSE st.best_plan,
              min_missing |-> IF new_missing < st.min_missing THEN new_missing
                              ELSE st.min_missing,
              broke |-> od]

\* if one_dive and len(stack) > 1: stack = [stack[-1]]
one_dive_cut(stk, od) == IF od /\ Len(stk) > 1 THEN <<Last(stk)>> ELSE stk

\* The orders of the two branches: shuffled under policy 2
branch_orders(conflict, policy) ==
    IF policy = 2
    THEN {<<<<conflict[1], conflict[2]>>, <<conflict[2], conflict[1]>>>>,
          <<<<conflict[2], conflict[1]>>, <<conflict[1], conflict[2]>>>>}
    ELSE {<<<<conflict[1], conflict[2]>>, <<conflict[2], conflict[1]>>>>}

DictSize == <<4, 3, 2>>

\* PBS(environment, solver, max_missing, conflict_policy) constructed and
\* solve(pipes, one_dive=...) about to run on three crossing pipes
InitDict ==
    /\ grid_size = DictSize
    /\ grid = [c \in Cells(DictSize) |-> FREE]
    /\ occupation_map = <<>>
    /\ obstacles = <<>>
    /\ ever_obstacle = {}
    /\ \E d0 \in 1..MaxDiameter :
          pipes = <<Pipe(0, <<0, 1, 0>>, <<3, 1, 0>>, d0),
                    Pipe(1, <<1, 0, 0>>, <<1, 2, 0>>, 1),
                    Pipe(2, <<2, 0, 0>>, <<2, 2, 0>>, 1)>>
    /\ NoCallYet
    /\ DetOff
    /\ FixOff
    /\ ConsOff
    /\ QualOff
    /\ pbs_pc = "start"
    /\ max_missing \in {0, 1}
    /\ conflict_policy \in {1, 2}
    /\ one_dive \in BOOLEAN
    /\ min_missing = 0
    /\ stack = <<>>
    /\ best_plan = NoPlan
    /\ root_plan = NoPlan
    /\ result = NoPlan
    /\ nodes_expanded = 0
    /\ max_depth = 0
    /\ timeouts = 0
    /\ accepts = 0
    /\ ll_calls = <<>>
    /\ created = <<>>
    /\ last_branch = NoBranch
    /\ last_step = "none"

DictUnchanged ==
    UNCHANGED <<envVars, detVars, fixVars, consVars, qualVars, max_missing, conflict_policy,
                root_plan, nodes_expanded, max_depth, accepts, ll_calls, created,
                last_branch, one_dive>>

\* solve up to the loop: independent routing and the root node
DictStart ==
    /\ pbs_pc = "start"
    /\ \E current_plan \in [1..Len(pipes) -> UNION {DictRoutes(i) : i \in 0..2} \cup {NoPath}] :
          /\ \A k \in 1..Len(pipes) :
                current_plan[k] \in solver_solve_outcomes(pipes[k], {})
          /\ stack' = <<[constraints |-> <<>>,
                         plan |-> current_plan,
                         missing_count |-> missing_count_of(current_plan),
                         cost |-> calculate_total_cost(current_plan)]>>
          /\ best_plan' = current_plan
          /\ min_missing' = missing_count_of(current_plan)
    /\ pbs_pc' = "loop"
    /\ last_step' = "start"
    /\ UNCHANGED <<result, timeouts>>
    /\ DictUnchanged

\* The loop condition holds
DictLoopGuard == pbs_pc = "loop" /\ stack # <<>>

\* One iteration: the popped node has no conflict and is within the budget
DictReturnNode ==
    /\ DictLoopGuard
    /\ get_first_conflict(Last(stack).plan, pipes) = <<>>
    /\ Last(stack).missing_count <= max_missing
    /\ result' = Last(stack).plan
    /\ stack' = SubSeq(stack, 1, Len(stack) - 1)
    /\ pbs_pc' = "done"
    /\ last_step' = "return"
    /\ UNCHANGED <<best_plan, min_missing, timeouts>>
    /\ DictUnchanged

\* One iteration: the popped node has no conflict and is over the budget
DictDrop ==
    /\ DictLoopGuard
    /\ get_first_conflict(Last(stack).plan, pipes) = <<>>
    /\ Last(stack).missing_count > max_missing
    /\ stack' = one_dive_cut(SubSeq(stack, 1, Len(stack) - 1), one_dive)
    /\ last_step' = "drop"
    /\ UNCHANGED <<pbs_pc, result, best_plan, min_missing, timeouts>>
    /\ DictUnchanged

\* One iteration: the popped node has a conflict and both branches are tried
DictBranch ==
    /\ DictLoopGuard
    /\ get_first_conflict(Last(stack).plan, pipes) # <<>>
    /\ Len(Last(stack).constraints) < MaxConstraints
    /\ LET node == Last(stack)
           conflict == get_first_conflict(node.plan, pipes)
       IN  \E branches \in branch_orders(conflict, conflict_policy) :
           \E u1 \in replan_outcomes(node.plan, branches[1][2],
                                     new_constraints_of(node, branches[1]), pipes) :
           \E u2 \in replan_outcomes(node.plan, branches[2][2],
                                     new_constraints_of(node, branches[2]), pipes) :
              LET st0 == [stack |-> SubSeq(stack, 1, Len(stack) - 1),
                          best_plan |-> best_plan, min_missing |-> min_missing,
                          broke |-> FALSE]
                  st1 == branch_pass(st0, node, branches[1], u1, max_missing, one_dive)
                  st2 == branch_pass(st1, node, branches[2], u2, max_missing, one_dive)
              IN  /\ stack' = one_dive_cut(st2.stack, one_dive)
                  /\ best_plan' = st2.best_plan
                  /\ min_missing' = st2.min_missing
    /\ last_step' = "branch"
    /\ UNCHANGED <<pbs_pc, result, timeouts>>
    /\ DictUnchanged

\* The loop ends, on the empty stack or on the deadline: return best_plan
DictReturnBest ==
    /\ pbs_pc = "loop"
    /\ result' = best_plan
    /\ timeouts' = IF stack # <<>> THEN 1 ELSE 0
    /\ pbs_pc' = "done"
    /\ last_step' = "return_best"
    /\ UNCHANGED <<stack, best_plan, min_missing>>
    /\ DictUnchanged

NextDict == DictStart \/ DictReturnNode \/ DictDrop \/ DictBranch \/ DictReturnBest

SpecDict == InitDict /\ [][NextDict]_vars

\* ---------------------------------------------------------------- claims: router and environment
\* Two points are one unit step apart along exactly one axis
UnitStep(a, b) ==
    /\ Cardinality({k \in 1..3 : a[k] # b[k]}) = 1
    /\ \A k \in 1..3 : Abs(a[k] - b[k]) <= 1

\* C1: when solve returns (path, open set emptied, or deadline expired) the
\* occupancy grid and the owner map are identical to their values at entry.
C1_SolveRestoresEnvironment ==
    last_op = "solve" => (grid = entry_grid /\ occupation_map = entry_occ)

\* C2: every vertex of a returned path, the start included, is in bounds, is
\* not an obstacle voxel and is not a voxel of a higher-priority pipe's path.
C2_ReturnedPathAvoidsBlockedCells ==
    last_result # NoPath =>
        \A i \in 1..Len(last_result) :
            /\ is_valid_cell(grid_size, last_result[i])
            /\ entry_grid[last_result[i]] # OBSTACLE
            /\ \A k \in 1..Len(call_hp) : last_result[i] \notin get_occupied_cells(call_hp[k])

\* C3: every returned path starts at the pipe's start, ends at its goal, and
\* consecutive vertices differ in exactly one coordinate by exactly one voxel.
C3_PathConnectsStartToGoal ==
    last_result # NoPath =>
        /\ Head(last_result) = PipeOf(pipes, call_pipe).start
        /\ Last(last_result) = PipeOf(pipes, call_pipe).goal
        /\ \A i \in 1..(Len(last_result) - 1) : UnitStep(last_result[i], last_result[i + 1])

\* C3 witness: the router returned a path with a bend around marked pipes
C3_Witness ==
    /\ last_result # NoPath
    /\ Len(last_result) >= 3
    /\ count_bends(last_result) >= 1
    /\ \E k \in 1..Len(call_hp) : has_path(call_hp[k])

\* C10: every voxel that was classified obstacle is still classified obstacle.
C10_ObstacleStaysObstacle == \A c \in ever_obstacle : grid[c] = OBSTACLE

\* ---------------------------------------------------------------- claims: PBS
\* Transitive closure of a relation given as a set of pairs
RECURSIVE Closure(_)
Closure(R) ==
    LET R2 == R \cup {<<pq[1][1], pq[2][2]>> : pq \in {x \in R \X R : x[1][2] = x[2][1]}}
    IN  IF R2 = R THEN R ELSE Closure(R2)

\* No pipe is (transitively) above itself
Acyclic(cs) == \A p \in Closure(cs) : p[1] # p[2]

\* The two orders _branch tries for a conflict
Orders(conflict) == {<<conflict[1], conflict[2]>>, <<conflict[2], conflict[1]>>}

\* C4: every conflict-tree node created or on the DFS stack has a constraint
\* set without a directed cycle; an order (higher, lower) of the branched
\* conflict whose tentative set (the parent's plus the new constraint) has a
\* cycle gets no low-level call and no child.
C4_ConstraintSetsAcyclic ==
    /\ \A k \in 1..Len(stack) : Acyclic(stack[k].constraints)
    /\ \A k \in 1..Len(created) : Acyclic(created[k].constraints)
    /\ \A k \in 1..Len(ll_calls) : Acyclic(ll_calls[k].constraints)
    /\ last_branch.conflict # <<>> =>
          \A o \in Orders(last_branch.conflict) :
              ~Acyclic(last_branch.parent \cup {o}) =>
                  /\ \A k \in 1..Len(ll_calls) :
                        <<ll_calls[k].higher, ll_calls[k].lower>> # o
                  /\ \A k \in 1..Len(created) :
                        created[k].constraints # last_branch.parent \cup {o}

\* C4 witness: a branch in which one order closed a cycle and was skipped
\* while the other order produced a child
C4_Witness ==
    /\ last_branch.conflict # <<>>
    /\ \E o \in Orders(last_branch.conflict) : ~Acyclic(last_branch.parent \cup {o})
    /\ Len(created) = 1

\* Two routed pipes of the plan have a path vertex in common
SharesVertex(plan) ==
    \E i, j \in 1..Len(plan) :
        /\ i # j
        /\ plan[i].path # NoPath /\ plan[j].path # NoPath
        /\ Range(plan[i].path) \cap Range(plan[j].path) # {}

\* Number of pipes of the plan without a path
Unrouted(plan) == Cardinality({i \in 1..Len(plan) : plan[i].path = NoPath})

\* C5: best is only ever assigned a plan without conflicts and with
\* num_missing <= max_missing, the accepted node is not branched, and solve
\* returns the last plan so assigned, or the root plan when none was accepted.
C5_BestIsConflictFreeAndFeasible ==
    /\ [](best_plan # NoPlan =>
            ~SharesVertex(best_plan) /\ Unrouted(best_plan) <= max_missing)
    /\ []((accepts = 0) <=> (best_plan = NoPlan))
    /\ [](pbs_pc = "done" => result = IF accepts > 0 THEN best_plan ELSE root_plan)
    /\ [][accepts' # accepts =>
            /\ best_plan' = stack[Len(stack)].plan
            /\ stack' = SubSeq(stack, 1, Len(stack) - 1)
            /\ created' = <<>> /\ ll_calls' = <<>>]_vars

\* C5 witness: solve has returned an accepted plan with a missing pipe
C5_Witness ==
    pbs_pc = "done" /\ accepts > 0 /\ result = best_plan /\ Unrouted(result) > 0

\* C6: every assignment to best replaces it with a plan whose quality
\* (num_missing, total_cost) is strictly better, lexicographically, than the
\* previous best.
C6_BestStrictlyImproves ==
    [][(accepts' # accepts /\ best_plan # NoPlan) =>
          QualityLess(get_quality(best_plan'), get_quality(best_plan))]_vars

\* C6 witness: best has been assigned a second time
C6_Witness == pbs_pc = "loop" /\ accepts >= 2

\* C7: after the lower pipe is re-planned a child is created iff the child
\* plan's num_missing <= max_missing; hence every non-root node on the DFS
\* stack has num_missing <= max_missing.
C7_ChildrenWithinMaxMissing ==
    /\ \A k \in 1..Len(ll_calls) :
          ll_calls[k].child <=> (ll_calls[k].num_missing <= max_missing)
    /\ \A k \in 1..Len(stack) :
          stack[k].depth > 0 => Unrouted(stack[k].plan) <= max_missing

\* The crossing instance (scenario 4) run with max_missing = 0
CrossRun == grid_size = PbsCross.size /\ Len(pipes) = Len(PbsCross.pipes) /\ max_missing = 0

\* Squared Euclidean distance
Dist2(a, b) ==
    (a[1] - b[1]) * (a[1] - b[1]) + (a[2] - b[2]) * (a[2] - b[2])
        + (a[3] - b[3]) * (a[3] - b[3])

TooClose(a, b) ==
    \E pa \in Range(a.path) : \E pb \in Range(b.path) :
        4 * Dist2(pa, pb) < (a.diameter + b.diameter) * (a.diameter + b.diameter)

\* C9: for every pair of routed pipes the detector reports a conflict iff
\* some vertex pair is at distance < (dA + dB) / 2.
C9_DetectorMatchesClearance ==
    det_op = "find" =>
        \A i, j \in 1..Len(pipes) :
            (i < j /\ pipes[i].path # NoPath /\ pipes[j].path # NoPath) =>
                /\ (<<pipes[i].id, pipes[j].id>> \in det_conflicts)
                      <=> TooClose(pipes[i], pipes[j])
                /\ has_conflicts(pipes) <=> TooClose(pipes[i], pipes[j])

\* ---------------------------------------------------------------- claims: mark / unmark
\* Voxels classified pipe
PipeVoxels == {c \in Cells(grid_size) : grid[c] = PIPE}

\* Union of the path cells of the pipes marked and not yet unmarked
MarkedPathCells ==
    UNION {IF PipeOf(pipes, id).path = NoPath THEN {} ELSE Range(PipeOf(pipes, id).path) :
             id \in marked_pipes}

\* C11: after every mark_pipe_path / unmark_pipe_path the voxels classified
\* pipe are exactly the path cells of the currently marked pipes, and the key
\* set of the owner map is exactly that set.
C11_PipeVoxelsAreMarkedPaths ==
    last_op \in {"mark_pipe_path", "unmark_pipe_path"} =>
        /\ PipeVoxels = MarkedPathCells
        /\ DOMAIN occupation_map = PipeVoxels

\* C12: mark_pipe_path(p) directly followed by unmark_pipe_path(p) restores
\* the grid and the owner map to their values before the mark.
C12_UnmarkUndoesMark ==
    pair = "unmarked" => (grid = pre_mark.grid /\ occupation_map = pre_mark.occ)

\* ---------------------------------------------------------------- claims: one low-level call
\* The pipe of the last solve call
CallPipe == PipeOf(pipes, call_pipe)

\* Voxels of the higher-priority pipes passed to the last solve call
HigherCells ==
    UNION {IF call_hp[k].path = NoPath THEN {} ELSE Range(call_hp[k].path) :
             k \in 1..Len(call_hp)}

\* C13: if the pipe's start voxel or its goal voxel is an obstacle voxel the
\* router returns none.
C13_BlockedEndpointGivesNone ==
    (last_op = "solve"
       /\ (entry_grid[CallPipe.start] = OBSTACLE \/ entry_grid[CallPipe.goal] = OBSTACLE))
        => last_result = NoPath

\* C14: for start = goal the router returns [start], and assigning that
\* path gives length 0, cost 0 and 0 bends.
C14_SingleVertexPathCostsNothing ==
    /\ (last_op = "solve" /\ ~call_timed_out /\ CallPipe.start = CallPipe.goal)
          => last_result = <<CallPipe.start>>
    /\ (last_op = "set_path" /\ CallPipe.start = CallPipe.goal)
          => /\ CallPipe.path = <<CallPipe.start>>
             /\ CallPipe.length = 0
             /\ CallPipe.cost = <<0, 1>>
             /\ CallPipe.num_bends = 0

\* Voxels free for the last call: in bounds, free in the grid at entry, not
\* a cell of a higher-priority pipe
FreeForCall == {c \in Cells(grid_size) : entry_grid[c] = FREE /\ c \notin HigherCells}

\* Voxels reachable from the set S by unit steps through FreeForCall
RECURSIVE ReachFrom(_)
ReachFrom(S) ==
    LET more == S \cup {c \in FreeForCall : \E d \in S : UnitStep(c, d)}
    IN  IF more = S THEN S ELSE ReachFrom(more)

\* The goal can be reached from the start through free voxels
GoalReachable ==
    /\ CallPipe.start \in FreeForCall
    /\ CallPipe.goal \in ReachFrom({CallPipe.start})

\* C15: with the deadline not reached, the router returns none iff the goal
\* cannot be reached from the start by unit steps through free voxels.
C15_NoneIffUnreachable ==
    (last_op = "solve" /\ ~call_timed_out) => (last_result = NoPath <=> ~GoalReachable)

\* Number of direction changes of a path
Turns(path) ==
    Cardinality({i \in 2..(Len(path) - 1) :
                   \E k \in 1..3 : path[i][k] - path[i - 1][k] # path[i + 1][k] - path[i][k]})

\* Manhattan distance
Manhattan(a, b) == Abs(a[1] - b[1]) + Abs(a[2] - b[2]) + Abs(a[3] - b[3])

\* The last call ran to its end on a grid without obstacles or pipes
OpenCall ==
    /\ last_op = "solve" /\ ~call_timed_out
    /\ call_hp = <<>>
    /\ \A c \in Cells(grid_size) : entry_grid[c] = FREE

\* C16: without obstacles and higher-priority pipes the router returns a path
\* whose length is the Manhattan distance from start to goal, with at most
\* 2 bends.
C16_OpenGridPathIsMonotone ==
    OpenCall =>
        /\ last_result # NoPath
        /\ Len(last_result) - 1 = Manhattan(CallPipe.start, CallPipe.goal)
        /\ Turns(last_result) <= 2

\* C16 witness: a returned path through all three axes, with 2 bends
C16_Witness ==
    /\ OpenCall
    /\ \A k \in 1..3 : CallPipe.start[k] # CallPipe.goal[k]
    /\ last_result # NoPath /\ Turns(last_result) = 2

\* A step of the DFS loop that popped a node
Pops == nodes_expanded' # nodes_expanded

\* best_plan is strictly better than the popped node's plan
BestStrictlyBetter ==
    best_plan # NoPlan /\ QualityLess(get_quality(best_plan), get_quality(Top.plan))

\* C17: a popped node is pruned exactly when best_plan is strictly better than
\* its plan; a node whose quality equals that of best_plan is not pruned.
C17_PrunedIffBestStrictlyBetter ==
    [][Pops => ((last_step' = "prune") <=> BestStrictlyBetter)]_vars

\* The last step branched into two children of different quality
TwoUnequalChildren ==
    /\ last_step = "branch" /\ Len(created) = 2
    /\ get_quality(created[1].plan) # get_quality(created[2].plan)

\* Of two nodes, the one of better (smaller) quality, and the other
BetterOf(a, b) == IF QualityLess(get_quality(b.plan), get_quality(a.plan)) THEN b ELSE a

WorseOf(a, b) == IF QualityLess(get_quality(b.plan), get_quality(a.plan)) THEN a ELSE b

\* C18: when branching yields two children of different quality the worse one
\* is pushed first and the better one on top of it; every pop takes the top
\* node and leaves the nodes below it in place, so the better child and all
\* nodes pushed above the worse child are popped before the worse child is.
C18_BetterChildOnTop ==
    [][/\ TwoUnequalChildren' =>
            stack' = Popped \o <<WorseOf(created'[1], created'[2]),
                                 BetterOf(created'[1], created'[2])>>
       /\ Pops => /\ Len(stack') >= Len(stack) - 1
                  /\ SubSeq(stack', 1, Len(stack) - 1) = Popped]_vars

\* C18 witness: a branch created the better child first, and the worse one
\* lies below it on the stack
C18_Witness ==
    /\ TwoUnequalChildren
    /\ QualityLess(get_quality(created[1].plan), get_quality(created[2].plan))
    /\ stack[Len(stack)] = created[1] /\ stack[Len(stack) - 1] = created[2]

\* The step on which solve leaves the DFS loop
Returns == pbs_pc = "loop" /\ pbs_pc' = "done"

\* C19: the deadline is tested before every pop. When the loop is left, with
\* nodes still on the stack or not, no node is popped and no low-level call is
\* made on that step or after it, and the result is the last accepted plan,
\* or the independent-routing plan if none was accepted.
C19_DeadlineReturnsBest ==
    [][/\ Returns =>
            /\ result' = IF accepts = 0 THEN root_plan ELSE best_plan
            /\ UNCHANGED <<stack, nodes_expanded, ll_calls, timeouts, best_plan,
                           grid, occupation_map>>
       /\ pbs_pc = "done" =>
            /\ pbs_pc' = "done" /\ result' = result
            /\ UNCHANGED <<stack, nodes_expanded, ll_calls, timeouts>>
       /\ Pops => pbs_pc = "loop"]_vars

\* C19 witness: solve returned with nodes left on the stack after a plan
\* other than the independent-routing plan had been accepted
C19_Witness ==
    /\ pbs_pc = "done" /\ stack # <<>>
    /\ accepts > 0 /\ best_plan # root_plan
    /\ result = best_plan

\* Whether a low-level call created a child
MadeChild(c) == c.child

\* The pipe the k-th child of a branch re-planned: the lower pipe of the
\* k-th low-level call that created a child
LowerOf(calls, k) == SelectSeq(calls, MadeChild)[k].lower

\* C20: a branching step leaves the plan of the branched node, the root plan,
\* best_plan and the nodes below on the stack as they were, and each child's
\* plan differs from the parent's at the child's own lower pipe only (so the
\* second re-plan does not reach the first child).
C20_BranchingKeepsOtherPlans ==
    [][(Pops /\ last_step' = "branch") =>
          /\ last_branch'.plan = Top.plan
          /\ root_plan' = root_plan
          /\ best_plan' = best_plan
          /\ SubSeq(stack', 1, Len(stack) - 1) = Popped
          /\ \A k \in 1..Len(created') :
                \A i \in 1..Len(Top.plan) :
                    i # LowerOf(ll_calls', k) + 1 =>
                        created'[k].plan[i] = Top.plan[i]]_vars

\* C20 witness: the root node was branched into two children whose re-planned
\* pipes both differ from the root plan's, and the root plan is still the
\* plan the branched node holds
C20_Witness ==
    /\ last_step = "branch" /\ Len(created) = 2
    /\ created[1].depth = 1
    /\ created[1].plan # root_plan /\ created[2].plan # root_plan
    /\ created[1].plan # created[2].plan
    /\ last_branch.plan = root_plan

\* C21: PBS.solve never ends in an exception, whatever the conflict policy.
C21_SolveNeverRaises == pbs_pc # "raised"

\* The ids of the routed pipes that constraints put above pipe_id
HigherIds(plan, pipe_id, constraints) ==
    {c[1] : c \in {d \in constraints : d[2] = pipe_id /\ has_path(PipeOf(plan, d[1]))}}

\* The low-level call of a branch of node for the order o, with the
\* higher-priority pipes handed over in the order perm
CallInOrder(node, o, perm) ==
    solve(grid_size, [grid |-> grid, occ |-> occupation_map], PipeOf(node.plan, o[2]),
          [k \in 1..Len(perm) |-> PipeOf(node.plan, perm[k])], FALSE)

\* A node is about to be popped and branched
AboutToBranch ==
    /\ pbs_pc = "loop" /\ stack # <<>>
    /\ ~ShouldPrune(Top) /\ has_conflicts(Top.plan)

\* C22: with the conflict choice fixed and no deadline expiry a DFS step has
\* one outcome: the order in which the constraint set hands the
\* higher-priority pipes to the router, the one thing left to the container,
\* changes neither the path found nor the environment left behind.
C22_StepDeterminedByConflictChoice ==
    AboutToBranch =>
        \A conflict \in find_all_conflicts(Top.plan) :
            \A o \in Orders(conflict) :
                LET cs == Top.constraints \cup {o}
                IN  is_consistent(cs) =>
                        \A p, q \in Perms(HigherIds(Top.plan, o[2], cs)) :
                            CallInOrder(Top, o, p) = CallInOrder(Top, o, q)

\* C22 witness: a branch whose lower pipe has two routed higher-priority
\* pipes, so that the router can be handed them in two orders
C22_Witness ==
    /\ AboutToBranch
    /\ \E conflict \in find_all_conflicts(Top.plan) :
          \E o \in Orders(conflict) :
              LET cs == Top.constraints \cup {o}
                  ids == HigherIds(Top.plan, o[2], cs)
              IN  /\ is_consistent(cs)
                  /\ Cardinality(ids) = 2
                  /\ Cardinality(Perms(ids)) = 2

\* The cells of the path of the pipe id of the plan FixOrder returned
FixPath(id) == Range(PipeOf(fo_plan, id).path)

\* C23: in the plan FixOrder returns, a pipe routed later shares no voxel
\* with the path of a pipe routed earlier.
C23_LaterPipeAvoidsEarlierPaths ==
    fo_pc = "done" =>
        \A i, j \in 1..Len(routed_pipes) :
            i < j => FixPath(routed_pipes[i]) \cap FixPath(routed_pipes[j]) = {}

\* C25: is_consistent returns false exactly when the graph higher -> lower has
\* a directed cycle, a self-constraint included, and leaves the set as it was.
C25_ConsistentIffAcyclic ==
    [][cs_op' = "is_consistent" =>
          /\ cs_out' = Acyclic(cs_node.constraints)
          /\ cs_node' = cs_node]_vars

\* C25 witness: is_consistent returned false on a cycle through three pipes
C25_Witness ==
    /\ cs_op = "is_consistent" /\ cs_out = FALSE
    /\ Cardinality(cs_node.constraints) = 3
    /\ \A c \in cs_node.constraints :
          c[1] # c[2] /\ <<c[2], c[1]>> \notin cs_node.constraints

\* C26: create_child(new_plan, c) returns a node with the parent's constraints
\* plus c, the parent's depth plus 1 and the plan new_plan, and neither it nor
\* a later add to the child's set changes the parent's constraints or plan.
C26_CreateChildLeavesParent ==
    [][/\ cs_op' = "create_child" =>
            /\ cs_child'.constraints = cs_node.constraints \cup {cs_out'.constraint}
            /\ cs_child'.depth = cs_node.depth + 1
            /\ cs_child'.plan = cs_out'.plan
            /\ cs_node' = cs_node
       /\ cs_op' = "add_constraint" => cs_node' = cs_node]_vars

\* C26 witness: a constraint the parent does not hold was added to the child
\* after create_child, with a plan other than the parent's
C26_Witness ==
    /\ cs_op = "add_constraint"
    /\ cs_child.plan # cs_node.plan
    /\ Cardinality(cs_child.constraints) = Cardinality(cs_node.constraints) + 2

\* The ids that occur in a constraint of the set
IdsOf(cs) == {c[1] : c \in cs} \cup {c[2] : c \in cs}

\* Position of an id in an order
PosIn(order, id) == CHOOSE k \in 1..Len(order) : order[k] = id

\* C29: for an acyclic set get_priority_order returns a list that holds every
\* id of the set exactly once, higher before lower for every constraint; for
\* a set with a cycle it returns no order.
C29_PriorityOrderIsTopological ==
    cs_op = "get_priority_order" =>
        IF Acyclic(cs_node.constraints)
        THEN /\ cs_out # NoOrder
             /\ Range(cs_out) = IdsOf(cs_node.constraints)
             /\ Len(cs_out) = Cardinality(IdsOf(cs_node.constraints))
             /\ \A c \in cs_node.constraints : PosIn(cs_out, c[1]) < PosIn(cs_out, c[2])
        ELSE cs_out = NoOrder

\* C29 witness: an order of three pipes was returned for a set in which one
\* pipe is below the two others
C29_Witness ==
    /\ cs_op = "get_priority_order"
    /\ Len(cs_out) = 3
    /\ \E l \in ConsIds : {c \in cs_node.constraints : c[2] = l} = cs_node.constraints
    /\ Cardinality(cs_node.constraints) = 2

PlanOrders(plan) ==
    {[k \in 1..Len(plan) |-> plan[p[k]]] : p \in Perms(1..Len(plan))}

\* C28: conflict detection does not depend on argument order: _check_collision
\* answers alike for (a, b) and (b, a), Conflict(a, b) = Conflict(b, a) with
\* the smaller id first, and find_all_conflicts lists every conflicting
\* unordered pair of routed pipes exactly once, whatever the order of the pipes.
C28_DetectionIsSymmetric ==
    det_op = "find" =>
        /\ \A i, j \in 1..Len(pipes) :
              /\ check_collision(pipes[i], pipes[j]) = check_collision(pipes[j], pipes[i])
              /\ Conflict(pipes[i].id, pipes[j].id) = Conflict(pipes[j].id, pipes[i].id)
              /\ Conflict(pipes[i].id, pipes[j].id)[1] <= Conflict(pipes[i].id, pipes[j].id)[2]
        /\ \A plan \in PlanOrders(pipes) :
              LET found == find_all_conflicts_list(plan)
              IN  /\ Range(found) = det_conflicts
                  /\ \A i, j \in 1..Len(pipes) :
                        (i < j /\ has_path(pipes[i]) /\ has_path(pipes[j])) =>
                            Cardinality({k \in 1..Len(found) :
                                            {found[k][1], found[k][2]}
                                                = {pipes[i].id, pipes[j].id}})
                                = (IF check_collision(pipes[i], pipes[j]) THEN 1 ELSE 0)

\* find_all_conflicts has reported two conflicting pairs and one pair apart
C28_Witness ==
    /\ det_op = "find"
    /\ Cardinality(det_conflicts) = 2
    /\ \A id \in PipeIds : has_path(PipeOf(pipes, id))

\* C30: in the dictionary-based PBS the constraint list of every node on the
\* stack is acyclic: a branch that would close a directed cycle with the
\* node's constraints is rejected when the list is extended.
C30_DictStackAcyclic ==
    pbs_pc = "loop" => \A k \in 1..Len(stack) : Acyclic(Range(stack[k].constraints))

\* FixOrder.solve on the inputs PBS.solve was given: the same pipes without
\* paths and the environment as loaded, no deadline hit
FixOrderOnSameInputs ==
    fix_order(grid_size,
              [grid |-> [c \in Cells(grid_size) |->
                            IF c \in ever_obstacle THEN OBSTACLE ELSE FREE],
               occ |-> <<>>],
              [k \in 1..Len(pipes) |->
                  Pipe(pipes[k].id, pipes[k].start, pipes[k].goal, pipes[k].diameter)],
              {})

\* PBS.solve has returned on the empty stack, no deadline hit
RanToExhaustion ==
    pbs_pc = "done" /\ stack = <<>> /\ timeouts = 0 /\ nodes_expanded < MaxNodes

\* C24: the plan FixOrder returns is never strictly better, by
\* (num_missing, total_cost), than the plan PBS returns when run to stack
\* exhaustion on the same inputs.
C24_FixOrderNeverBeatsPBS ==
    (RanToExhaustion /\ ~FixOrderOnSameInputs.raised) =>
        ~is_better_than(FixOrderOnSameInputs.pipes, result)

\* C31: the obstacle pipes handed to the low-level router when a branch
\* re-plans its lower pipe are exactly the pipes h with (h, lower) directly in
\* the tentative constraint set that have a path in the child plan; a routed
\* pipe without such a constraint is not handed over.
C31_ObstaclesAreDirectHigherPipes ==
    last_step = "branch" =>
        \A k \in 1..Len(ll_calls) :
            ll_calls[k].hp =
                {h \in PipeIds :
                    /\ <<h, ll_calls[k].lower>> \in ll_calls[k].constraints
                    /\ has_path(PipeOf(last_branch.plan, h))}

\* A re-plan was handed one routed pipe while another routed pipe, not
\* constrained above the lower one, was left out
C31_Witness ==
    /\ last_step = "branch"
    /\ \E k \in 1..Len(ll_calls) :
          /\ Cardinality(ll_calls[k].hp) = 1
          /\ \E o \in PipeIds \ (ll_calls[k].hp \cup {ll_calls[k].lower}) :
                has_path(PipeOf(last_branch.plan, o))

\* The goal entry popped by the search of the last solve call, on the grid
\* with the higher-priority pipes marked
LastGoalEntry ==
    popped_goal_entry(grid_size,
                      mark_all(grid_size, [grid |-> entry_grid, occ |-> entry_occ],
                               call_hp).grid,
                      CallPipe.start, CallPipe.goal, CallPipe.diameter)

\* C32: for every path the router returns, the g-score of the popped goal
\* entry is (number of unit steps) x diameter + 50 x (number of interior
\* vertices where the axis changes), and that number of axis changes is the
\* num_bends Pipe.set_path computes for the same path.
C32_GScoreIsStepsPlusBends ==
    last_op = "set_path" =>
        /\ LastGoalEntry.path = CallPipe.path
        /\ LastGoalEntry.g =
              (Len(CallPipe.path) - 1) * CallPipe.diameter
                 + BEND_PENALTY * Turns(CallPipe.path)
        /\ Turns(CallPipe.path) = CallPipe.num_bends

\* C32 on paths of two or more vertices
C32_GScoreOnProperPaths ==
    (last_op = "set_path" /\ Len(CallPipe.path) >= 2) =>
        /\ LastGoalEntry.path = CallPipe.path
        /\ LastGoalEntry.g =
              (Len(CallPipe.path) - 1) * CallPipe.diameter
                 + BEND_PENALTY * Turns(CallPipe.path)
        /\ Turns(CallPipe.path) = CallPipe.num_bends

\* A returned path with two bends around an obstacle, for a pipe of diameter 2
C32_ProperPathWitness ==
    /\ last_op = "set_path"
    /\ CallPipe.diameter = 2
    /\ Turns(CallPipe.path) = 2
    /\ Len(CallPipe.path) - 1 > Manhattan(CallPipe.start, CallPipe.goal)

\* C33: every child pushed by a branch has a constraint set that strictly
\* contains its parent's, and no node lies deeper than n(n-1)/2 below the
\* root for n pipes, so the depth-first loop runs out of nodes.
C33_ChildrenStrictlyExtendParent ==
    /\ last_step = "branch" =>
          \A k \in 1..Len(created) :
              /\ last_branch.parent \subseteq created[k].constraints
              /\ created[k].constraints # last_branch.parent
    /\ \A k \in 1..Len(stack) :
          2 * stack[k].depth <= Len(pipes) * (Len(pipes) - 1)

\* The plan of the node respects the constraint (h, l): when both pipes are
\* routed the path of l shares no voxel with the path of h
RespectsConstraint(plan, c) ==
    (has_path(PipeOf(plan, c[1])) /\ has_path(PipeOf(plan, c[2]))) =>
        Range(PipeOf(plan, c[1]).path) \cap Range(PipeOf(plan, c[2]).path) = {}

\* C34: for every node on the stack and every constraint (h, l) of its
\* constraint set, if h and l are both routed in the node's plan then the
\* path of l shares no voxel with the path of h.
C34_NodePlansRespectConstraints ==
    pbs_pc = "loop" =>
        \A k \in 1..Len(stack) : \A c \in stack[k].constraints :
            RespectsConstraint(stack[k].plan, c)

\* Ids of the pipes without a path in a plan
MissingIds(plan) == {plan[k].id : k \in {i \in 1..Len(plan) : ~has_path(plan[i])}}

\* The independent routing left more pipes missing than max_missing allows
RootOverMissing == pbs_pc \in {"loop", "done", "raised"} /\ num_missing(root_plan) > max_missing

\* C35: a pipe missing in a node's plan is missing in the plan of each of its
\* children, so num_missing never decreases from the root downwards; when the
\* root plan has num_missing > max_missing no node is accepted as best and
\* solve returns the root plan.
C35_MissingNeverDecreases ==
    /\ last_step = "branch" =>
          \A k \in 1..Len(created) :
              /\ MissingIds(last_branch.plan) \subseteq MissingIds(created[k].plan)
              /\ num_missing(created[k].plan) >= num_missing(last_branch.plan)
    /\ pbs_pc = "loop" =>
          \A k \in 1..Len(stack) : MissingIds(root_plan) \subseteq MissingIds(stack[k].plan)
    /\ RootOverMissing =>
          /\ accepts = 0
          /\ best_plan = NoPlan
          /\ pbs_pc = "done" => result = root_plan

\* solve returned after expanding a child of a root that had a conflict and
\* more missing pipes than max_missing
C35_Witness ==
    /\ pbs_pc = "done"
    /\ num_missing(root_plan) > max_missing
    /\ max_depth >= 1
    /\ result = root_plan

\* Ids of the pipes without a path in a plan of the dictionary-based variant
DictMissingIds(plan) == {k - 1 : k \in {i \in 1..Len(plan) : plan[i] = NoPath}}

\* C35 in the dictionary-based variant (SpecDict): the nodes a branch pushes
\* miss every pipe the popped node misses, and a root over max_missing is
\* never branched further and is the plan returned.
C35_DictMissingNeverDecreases ==
    [][/\ (last_step' = "branch" /\ ~one_dive) =>
             \A k \in Len(stack)..Len(stack') :
                 /\ DictMissingIds(Last(stack).plan) \subseteq DictMissingIds(stack'[k].plan)
                 /\ stack'[k].missing_count >= Last(stack).missing_count
       /\ (pbs_pc = "loop" /\ min_missing > max_missing) =>
             /\ Len(stack') <= 1
             /\ best_plan' = best_plan
             /\ pbs_pc' = "done" => result' = best_plan]_vars

\* C36: with max_missing = +infinity every conflicting node that is not
\* pruned gets at least one child, so whenever the loop ends on the empty
\* stack the returned plan has no conflicts.
C36_ExhaustedSearchReturnsConflictFree ==
    max_missing = INF_MISSING =>
        /\ last_step = "branch" => Len(created) >= 1
        /\ (pbs_pc = "done" /\ stack = <<>>) =>
              /\ best_plan # NoPlan
              /\ result = best_plan
              /\ ~has_conflicts(result)

\* The search ran to the empty stack from a root with a conflict and
\* returned a plan that gave up a pipe
C36_Witness ==
    /\ max_missing = INF_MISSING
    /\ pbs_pc = "done" /\ stack = <<>>
    /\ has_conflicts(root_plan)
    /\ num_missing(result) >= 1
    /\ ~has_conflicts(result)

\* A FixOrder.solve or PBS._independent_routing run has returned its plan
RunReturned == fo_pc \in {"done", "rerun", "independent"}

\* C37: after PBS independent routing and after FixOrder.solve a pipe has a
\* path in the resulting plan if and only if the router returned a path for it
\* in that run, whatever path the Pipe object carried when the run started.
C37_PathIffRouterReturnedOne ==
    RunReturned =>
        \A id \in PipeIds : has_path(PipeOf(fo_plan, id)) <=> id \in run_returned

\* C37 for runs on fresh Pipe objects
C37_FirstRunPathIffReturned ==
    fo_pc = "done" =>
        \A id \in PipeIds : has_path(PipeOf(fo_plan, id)) <=> id \in run_returned

====
